---- MODULE Spec2Model ----
(***************************************************************************)
(* Storefront of src/App.tsx: the cart, the coupon, the three-step         *)
(* checkout form, the asynchronous final submit (order insert, WhatsApp    *)
(* notification, per-line stock update) and the operator's product form.   *)
(* React state is the in-memory state; the Supabase tables are the         *)
(* persisted state.  An event handler runs to its next await in one step;  *)
(* the return of an awaited backend call resumes it in another step.       *)
(***************************************************************************)
EXTENDS Integers, Sequences, FiniteSets, TLC

\* ------------------------------------------------------------------ bounds

\* Largest stock quantity in the initial catalog and in the operator's input.
MaxQty == 2
\* Number of final submits (runs of the else branch of handleCheckoutSubmit).
MaxSubmits == 1
\* Number of product saves by the operator.
MaxSaves == 1
\* Rows of the sales table loaded in the sales panel.
MaxOrders == 2
\* Calls on the products table in flight at once.
MaxPending == MaxSaves + 1

\* ------------------------------------------------------------------ values

None == <<>>
Some(x) == <<x>>

EmptyCheckoutData == [name |-> "", address |-> "", payment |-> ""]

INITIAL_COUPONS == << [code |-> "BELLE10", discount |-> 10] >>

\* What the shopper types in the coupon field.
CouponInputs == {"belle10", "nope"}
\* What the shopper types in the checkout form.
NameInputs == {"Ana"}
AddressInputs == {"Rua 1"}
PaymentMethods == {"Pix"}
\* What the operator leaves in a stock quantity input (type="number"): a
\* number below the min, the empty field, a count.
QtyInputs == {"-1", "", "2"}

\* A catalog as loaded from the products table at start-up.  Product 2 has a
\* variant missing from its stock list.
Catalog(q1, q2, q3) ==
  << [id |-> 1, name |-> "Renda", price |-> 100, promoPrice |-> 0,
      isPromotion |-> FALSE, visible |-> TRUE,
      colors |-> <<"Preto">>, sizes |-> <<"P", "M">>,
      stock |-> << [color |-> "Preto", size |-> "P", quantity |-> q1],
                   [color |-> "Preto", size |-> "M", quantity |-> q2] >>],
     [id |-> 2, name |-> "Velvet", price |-> 50, promoPrice |-> 40,
      isPromotion |-> TRUE, visible |-> TRUE,
      colors |-> <<"Vinho">>, sizes |-> <<"P", "M">>,
      stock |-> << [color |-> "Vinho", size |-> "P", quantity |-> q3] >>] >>

\* The catalog of the checkout specifications: one variant of product 2 is
\* sold out, product 1 has two units of one size and one of the other.
LoadedProducts == Catalog(2, 1, 0)

\* The catalogs of the shop floor.
LoadedCatalogs ==
  {Catalog(q1, q2, q3) : q1 \in 0 .. MaxQty, q2 \in 0 .. MaxQty, q3 \in 0 .. 1}

\* ------------------------------------------------------------------ state

VARIABLES
  products,        \* useState<Product[]>: the in-memory catalog
  dbProducts,      \* rows of the products table
  cart,            \* useState<CartItem[]>
  selectedProduct, \* useState<Product | null>: the product of the detail modal
  coupons,         \* useState<Coupon[]>
  appliedCoupon,   \* useState<Coupon | null>
  isCheckoutOpen,  \* useState(false)
  checkoutStep,    \* useState(0)
  checkoutData,    \* useState<CheckoutData>
  runs,            \* final submits: their closure and the await they are at
  dbSales,         \* rows of the sales table, in insertion order
  sales,           \* useState<Sale[]>
  whatsapp,        \* the messages handed to window.open
  editingProduct,  \* useState<Partial<Product> | null>
  dbPending,       \* calls on the products table sent, not yet answered
  saved,           \* number of product saves so far
  salesFilterStart,  \* useState(''): None for '', or the day of the date input
  salesFilterEnd,    \* useState(''): None for '', or the day of the date input
  salesFilterSearch, \* useState(''): the characters typed in the search field
  timezoneOffset,  \* Date.prototype.getTimezoneOffset() of the browser, in hours
  belleCart,       \* localStorage item 'belle_cart': None, or the JSON text
  dbNextId,        \* the next id the products table gives to an inserted row
  dbCoupons,       \* rows of the coupons table
  couponCalls,     \* inserts and deletes of coupons sent, not yet answered
  peer,            \* the same application open on another device
  lastOp           \* the last handler that ran, with its arguments

vars == <<products, dbProducts, cart, selectedProduct, coupons, appliedCoupon,
          isCheckoutOpen, checkoutStep, checkoutData, runs, dbSales, sales,
          whatsapp, editingProduct, dbPending, saved, salesFilterStart,
          salesFilterEnd, salesFilterSearch, timezoneOffset, belleCart,
          dbNextId, dbCoupons, couponCalls, peer, lastOp>>

catalogVars == <<products, dbProducts>>
cartVars == <<cart, selectedProduct, belleCart>>
couponVars == <<coupons, appliedCoupon>>
formVars == <<isCheckoutOpen, checkoutStep, checkoutData>>
orderVars == <<runs, dbSales, sales, whatsapp>>
adminVars == <<editingProduct, dbPending, saved>>
filterVars == <<salesFilterStart, salesFilterEnd, salesFilterSearch,
                timezoneOffset>>
backendVars == <<dbNextId, dbCoupons, couponCalls, peer>>

\* ------------------------------------------------------------------ helpers

\* Date.now() at a save: beyond any id of the products table, and later at
\* each save.
DateNow == 1000 + saved


\* Array.prototype.findIndex on a sequence: the first index whose element
\* satisfies Test, 0 when there is none.
FirstIndex(seq, Test(_)) ==
  IF \E i \in 1 .. Len(seq) : Test(seq[i])
  THEN CHOOSE i \in 1 .. Len(seq) :
         Test(seq[i]) /\ \A j \in 1 .. (i - 1) : ~Test(seq[j])
  ELSE 0

Range(seq) == {seq[i] : i \in 1 .. Len(seq)}

\* Array.prototype.filter on positions.
RECURSIVE FilterIdx(_, _, _)
FilterIdx(seq, Keep(_), i) ==
  IF i > Len(seq) THEN <<>>
  ELSE (IF Keep(i) THEN <<seq[i]>> ELSE <<>>) \o FilterIdx(seq, Keep, i + 1)

SameVariant(s, color, size) == s.color = color /\ s.size = size

\* The lookup without the size test.
VariantStockAnySize(stock, color, size) ==
  LET Hit(s) == s.color = color
      i == FirstIndex(stock, Hit)
  IN IF i = 0 THEN 0 ELSE stock[i].quantity

\* product.stock?.find(s => s.color === color && s.size === size)?.quantity || 0
VariantStock(stock, color, size) ==
  LET Hit(s) == SameVariant(s, color, size)
      i == FirstIndex(stock, Hit)
  IN IF i = 0 THEN 0 ELSE stock[i].quantity

SameLine(i, id, color, size) ==
  i.id = id /\ i.selectedColor = color /\ i.selectedSize = size

\* cart.find(i => i.id === product.id && ...)?.quantity || 0
CurrentInCart(lines, id, color, size) ==
  LET Hit(i) == SameLine(i, id, color, size)
      k == FirstIndex(lines, Hit)
  IN IF k = 0 THEN 0 ELSE lines[k].quantity

\* { ...product, selectedColor, selectedSize, quantity }.  The fields of the
\* product that no handler reads back from a cart line (colors, sizes, stock,
\* visible) are left out of the line.
CartItem(product, color, size, quantity) ==
  [id |-> product.id, name |-> product.name, price |-> product.price,
   promoPrice |-> product.promoPrice, isPromotion |-> product.isPromotion,
   selectedColor |-> color, selectedSize |-> size, quantity |-> quantity]

\* ------------------------------------------------------------------ cart store

\* JSON text, as the tree of its values.
JsonNumber(n) == [type |-> "number", value |-> n]
JsonString(text) == [type |-> "string", value |-> text]
JsonBoolean(b) == [type |-> IF b THEN "true" ELSE "false"]
JsonObject(members) == [type |-> "object", members |-> members]
JsonArray(items) == [type |-> "array", items |-> items]

JsonMember(key, value) == [key |-> key, value |-> value]

\* JSON.stringify of a cart line: its properties in the order of the object.
JsonOfCartItem(item) ==
  JsonObject(<< JsonMember("id", JsonNumber(item.id)),
                JsonMember("name", JsonString(item.name)),
                JsonMember("price", JsonNumber(item.price)),
                JsonMember("promoPrice", JsonNumber(item.promoPrice)),
                JsonMember("isPromotion", JsonBoolean(item.isPromotion)),
                JsonMember("selectedColor", JsonString(item.selectedColor)),
                JsonMember("selectedSize", JsonString(item.selectedSize)),
                JsonMember("quantity", JsonNumber(item.quantity)) >>)

\* JSON.stringify(cart)
JsonStringify(lines) ==
  JsonArray([k \in 1 .. Len(lines) |-> JsonOfCartItem(lines[k])])

\* The value JSON.parse gives property key of an object: that of its last
\* member of that key.
JsonProperty(object, key) ==
  LET at == CHOOSE k \in 1 .. Len(object.members) :
              /\ object.members[k].key = key
              /\ \A j \in (k + 1) .. Len(object.members) :
                   object.members[j].key # key
      json == object.members[at].value
  IN CASE json.type = "true" -> TRUE
       [] json.type = "false" -> FALSE
       [] OTHER -> json.value

\* JSON.parse of a cart line.
CartItemOfJson(object) ==
  [id |-> JsonProperty(object, "id"), name |-> JsonProperty(object, "name"),
   price |-> JsonProperty(object, "price"),
   promoPrice |-> JsonProperty(object, "promoPrice"),
   isPromotion |-> JsonProperty(object, "isPromotion"),
   selectedColor |-> JsonProperty(object, "selectedColor"),
   selectedSize |-> JsonProperty(object, "selectedSize"),
   quantity |-> JsonProperty(object, "quantity")]

\* JSON.parse(storedCart)
JsonParse(json) == [k \in 1 .. Len(json.items) |-> CartItemOfJson(json.items[k])]

\* setCart without the effect that saves the cart.
SetCartUnsaved(newCart) == cart' = newCart /\ UNCHANGED belleCart

\* setCart(newCart), and the effect on [cart] that follows the render:
\* localStorage.setItem('belle_cart', JSON.stringify(cart)).
SetCart(newCart) ==
  /\ cart' = newCart
  /\ belleCart' = Some(JsonStringify(newCart))

\* ------------------------------------------------------------------ pricing

\* The promotional price taken whenever there is one, flag or no flag.
EffectivePriceUnflagged(item) ==
  IF item.promoPrice > 0 THEN item.promoPrice ELSE item.price

\* (item.isPromotion && item.promoPrice > 0) ? item.promoPrice : item.price
EffectivePrice(item) ==
  IF item.isPromotion /\ item.promoPrice > 0 THEN item.promoPrice ELSE item.price

RECURSIVE SubtotalFrom(_, _)
SubtotalFrom(lines, i) ==
  IF i > Len(lines) THEN 0
  ELSE EffectivePrice(lines[i]) * lines[i].quantity + SubtotalFrom(lines, i + 1)

\* cart.reduce((acc, item) => acc + price * item.quantity, 0)
CartSubtotal(lines) == SubtotalFrom(lines, 1)

\* cartTotal: subtotal * (1 - appliedCoupon.discount / 100), or the subtotal.
\* The code computes it in floating point; the model keeps the exact value,
\* counted in hundredths of the currency unit (45 at 10% off is 40.5, 4050).
CartTotal(lines, coupon) ==
  IF coupon # None
  THEN CartSubtotal(lines) * (100 - coupon[1].discount)
  ELSE CartSubtotal(lines) * 100

\* The typed code compared as it is.
ToUpperCaseSkipped(s) == s

\* String.prototype.toUpperCase on the codes the shopper types.
ToUpperCase(s) ==
  CASE s \in {"belle10", "Belle10"} -> "BELLE10"
    [] s \in {"vip20", "Vip20"} -> "VIP20"
    [] s = "belle" -> "BELLE"
    [] s = "nope" -> "NOPE"
    [] OTHER -> s

\* ------------------------------------------------------------------ cart
\* The checkout modal covers the page: the catalog, the detail modal and the
\* cart drawer take no click while it is open.  The product form of the admin
\* panel covers the shop and its modals: the shopper's handlers run only
\* while no product is being edited.
FormClosed == editingProduct = None

\* The guard with the quantity already in the cart not counted up.
OutOfStockLax(currentInCart, variantStock) == currentInCart > variantStock

\* The guard of addToCart: currentInCart + 1 > variantStock.
OutOfStock(currentInCart, variantStock) == currentInCart + 1 > variantStock

\* The updater without the search for an existing line.
AddLineAlwaysNew(prev, product, color, size) ==
  Append(prev, CartItem(product, color, size, 1))

\* The updater passed to setCart by addToCart.
AddLine(prev, product, color, size) ==
  LET Hit(i) == SameLine(i, product.id, color, size)
      k == FirstIndex(prev, Hit)
  IN IF k # 0
     THEN [prev EXCEPT ![k].quantity = @ + 1]
     ELSE Append(prev, CartItem(product, color, size, 1))

\* The filter on the product of the line: every line of that product goes.
RemoveLineByProduct(prev, index) ==
  LET Keep(i) == prev[i].id # prev[index].id IN FilterIdx(prev, Keep, 1)

\* prev.filter((_, i) => i !== index)
RemoveLine(prev, index) ==
  LET Keep(i) == i # index IN FilterIdx(prev, Keep, 1)

\* onClick of a product card, and of a related product in the detail modal.
SelectProduct(i) ==
  /\ FormClosed
  /\ ~isCheckoutOpen
  /\ i \in 1 .. Len(products)
  /\ products[i].visible
  /\ selectedProduct' = Some(products[i])
  /\ lastOp' = [op |-> "selectProduct"]
  /\ UNCHANGED <<catalogVars, cart, belleCart, couponVars, formVars, orderVars, adminVars,
                 filterVars, backendVars>>

\* The close button and the backdrop of the detail modal.
CloseProduct ==
  /\ FormClosed
  /\ ~isCheckoutOpen
  /\ selectedProduct # None
  /\ selectedProduct' = None
  /\ lastOp' = [op |-> "closeProduct"]
  /\ UNCHANGED <<catalogVars, cart, belleCart, couponVars, formVars, orderVars, adminVars,
                 filterVars, backendVars>>

\* addToCart(selectedProduct, color, size), with the color and the size picked
\* among those of the product.
AddToCart(color, size) ==
  /\ FormClosed
  /\ ~isCheckoutOpen
  /\ selectedProduct # None
  /\ LET product == selectedProduct[1]
         variantStock == VariantStock(product.stock, color, size)
         currentInCart == CurrentInCart(cart, product.id, color, size)
     IN /\ color \in Range(product.colors)
        /\ size \in Range(product.sizes)
        /\ IF OutOfStock(currentInCart, variantStock)
           THEN /\ UNCHANGED cartVars
                /\ lastOp' = [op |-> "addToCart", ok |-> FALSE, id |-> product.id,
                              color |-> color, size |-> size]
           ELSE /\ SetCart(AddLine(cart, product, color, size))
                /\ selectedProduct' = None
                /\ lastOp' = [op |-> "addToCart", ok |-> TRUE, id |-> product.id,
                              color |-> color, size |-> size]
  /\ UNCHANGED <<catalogVars, couponVars, formVars, orderVars, adminVars,
                 filterVars, backendVars>>

RemoveFromCart(index) ==
  /\ FormClosed
  /\ ~isCheckoutOpen
  /\ index \in 1 .. Len(cart)
  /\ SetCart(RemoveLine(cart, index))
  /\ lastOp' = [op |-> "removeFromCart", index |-> index]
  /\ UNCHANGED <<catalogVars, selectedProduct, couponVars, formVars, orderVars,
                 adminVars,
                 filterVars, backendVars>>

\* handleApplyCoupon without the else branch's setAppliedCoupon(null).
HandleApplyCouponKeeping(couponCode) ==
  LET Hit(c) == c.code = ToUpperCase(couponCode)
      k == FirstIndex(coupons, Hit)
  IN /\ FormClosed
     /\ ~isCheckoutOpen
     /\ appliedCoupon' = IF k # 0 THEN Some(coupons[k]) ELSE appliedCoupon
     /\ lastOp' = [op |-> "applyCoupon", code |-> couponCode,
                   previous |-> appliedCoupon]
     /\ UNCHANGED <<catalogVars, cartVars, coupons, formVars, orderVars, adminVars,
                 filterVars, backendVars>>

\* handleApplyCoupon, on the code typed in the coupon field.
HandleApplyCoupon(couponCode) ==
  LET Hit(c) == c.code = ToUpperCase(couponCode)
      k == FirstIndex(coupons, Hit)
  IN /\ FormClosed
     /\ ~isCheckoutOpen
     /\ appliedCoupon' = IF k # 0 THEN Some(coupons[k]) ELSE None
     /\ lastOp' = [op |-> "applyCoupon", code |-> couponCode,
                   previous |-> appliedCoupon]
     /\ UNCHANGED <<catalogVars, cartVars, coupons, formVars, orderVars, adminVars,
                 filterVars, backendVars>>

\* The totals the cart drawer shows: cartSubtotal and cartTotal as computed
\* for the current cart and coupon.
RenderCart ==
  /\ FormClosed
  /\ ~isCheckoutOpen
  /\ lastOp' = [op |-> "renderCart", cartSubtotal |-> CartSubtotal(cart),
                cartTotal |-> CartTotal(cart, appliedCoupon)]
  /\ UNCHANGED <<catalogVars, cartVars, couponVars, formVars, orderVars, adminVars,
                 filterVars, backendVars>>

\* ------------------------------------------------------------------ checkout form

\* "Finalizar no WhatsApp" in the cart drawer: disabled on an empty cart.
OpenCheckout ==
  /\ FormClosed
  /\ ~isCheckoutOpen
  /\ cart # <<>>
  /\ isCheckoutOpen' = TRUE
  /\ lastOp' = [op |-> "openCheckout"]
  /\ UNCHANGED <<catalogVars, cartVars, couponVars, checkoutStep, checkoutData,
                 orderVars, adminVars,
                 filterVars, backendVars>>

\* A cancel that empties the cart and drops the coupon.
CancelCheckoutClearing ==
  /\ FormClosed
  /\ isCheckoutOpen
  /\ isCheckoutOpen' = FALSE
  /\ SetCart(<<>>)
  /\ appliedCoupon' = None
  /\ lastOp' = [op |-> "cancelCheckout"]
  /\ UNCHANGED <<catalogVars, selectedProduct, coupons, checkoutStep,
                 checkoutData, orderVars, adminVars,
                 filterVars, backendVars>>

\* A cancel that resets the form as the end of a checkout does.
CancelCheckoutResetting ==
  /\ FormClosed
  /\ isCheckoutOpen
  /\ isCheckoutOpen' = FALSE
  /\ checkoutStep' = 0
  /\ checkoutData' = EmptyCheckoutData
  /\ lastOp' = [op |-> "cancelCheckout"]
  /\ UNCHANGED <<catalogVars, cartVars, couponVars, orderVars, adminVars,
                 filterVars, backendVars>>

\* onClose of the checkout modal (its backdrop, at any step) and "Cancelar"
\* (at step 0): setIsCheckoutOpen(false).
CancelCheckout ==
  /\ FormClosed
  /\ isCheckoutOpen
  /\ isCheckoutOpen' = FALSE
  /\ lastOp' = [op |-> "cancelCheckout"]
  /\ UNCHANGED <<catalogVars, cartVars, couponVars, checkoutStep, checkoutData,
                 orderVars, adminVars,
                 filterVars, backendVars>>

\* onChange of the input of the current step.
SetCheckoutField(value) ==
  /\ FormClosed
  /\ isCheckoutOpen
  /\ \/ /\ checkoutStep = 0
        /\ value \in NameInputs
        /\ checkoutData' = [checkoutData EXCEPT !.name = value]
     \/ /\ checkoutStep = 1
        /\ value \in AddressInputs
        /\ checkoutData' = [checkoutData EXCEPT !.address = value]
     \/ /\ checkoutStep = 2
        /\ value \in PaymentMethods
        /\ checkoutData' = [checkoutData EXCEPT !.payment = value]
  /\ lastOp' = [op |-> "setCheckoutField"]
  /\ UNCHANGED <<catalogVars, cartVars, couponVars, isCheckoutOpen, checkoutStep,
                 orderVars, adminVars,
                 filterVars, backendVars>>

\* "Voltar": setCheckoutStep(p => p - 1), rendered when checkoutStep > 0.
CheckoutBack ==
  /\ FormClosed
  /\ isCheckoutOpen
  /\ checkoutStep > 0
  /\ checkoutStep' = checkoutStep - 1
  /\ lastOp' = [op |-> "checkoutBack"]
  /\ UNCHANGED <<catalogVars, cartVars, couponVars, isCheckoutOpen, checkoutData,
                 orderVars, adminVars,
                 filterVars, backendVars>>

\* The required input of the current step is filled: the browser fires the
\* form's submit event only then.
StepValid ==
  CASE checkoutStep = 0 -> checkoutData.name # ""
    [] checkoutStep = 1 -> checkoutData.address # ""
    [] OTHER -> checkoutData.payment # ""

\* The test of the step off by one.
IsFinalStepEarly(step) == ~(step < 1)

\* The branch handleCheckoutSubmit takes: checkoutStep < 2 advances the form,
\* the else branch submits the order.
IsFinalStep(step) == ~(step < 2)

\* handleCheckoutSubmit at a step before the last: setCheckoutStep(prev => prev + 1).
CheckoutContinue ==
  /\ FormClosed
  /\ isCheckoutOpen
  /\ StepValid
  /\ ~IsFinalStep(checkoutStep)
  /\ checkoutStep' = checkoutStep + 1
  /\ lastOp' = [op |-> "checkoutContinue"]
  /\ UNCHANGED <<catalogVars, cartVars, couponVars, isCheckoutOpen, checkoutData,
                 orderVars, adminVars,
                 filterVars, backendVars>>

\* ------------------------------------------------------------------ final submit

\* saleData built from the cart and the coupon of the latest render.
SaleDataLive(r) ==
  [run |-> r, customer_name |-> runs[r].data.name,
   customer_address |-> runs[r].data.address,
   payment_method |-> runs[r].data.payment,
   total |-> CartTotal(cart, appliedCoupon),
   items |-> cart]

\* saleData of handleCheckoutSubmit (created_at left out: the model has no
\* clock), tagged with the submit it comes from.
SaleData(r) ==
  [run |-> r, customer_name |-> runs[r].data.name,
   customer_address |-> runs[r].data.address,
   payment_method |-> runs[r].data.payment, total |-> runs[r].total,
   items |-> runs[r].cart]

\* What window.open is given: the fields the message text is built from,
\* tagged with the submit it comes from.
OrderMessage(r) ==
  [run |-> r, name |-> runs[r].data.name, address |-> runs[r].data.address,
   payment |-> runs[r].data.payment, items |-> runs[r].cart,
   coupon |-> runs[r].coupon, total |-> runs[r].total]

\* select('*').order('created_at', { ascending: false })
RECURSIVE Reverse(_)
Reverse(seq) ==
  IF seq = <<>> THEN <<>> ELSE Append(Reverse(Tail(seq)), Head(seq))

\* The quantity taken off without the floor of 0.
DecrementUnclamped(quantity, amount) == quantity - amount

\* Math.max(0, s.quantity - item.quantity)
Decrement(quantity, amount) ==
  IF quantity - amount > 0 THEN quantity - amount ELSE 0

\* product.stock.map(s => matches the line ? { ...s, quantity: ... } : s)
NewStock(stock, item) ==
  [k \in 1 .. Len(stock) |->
     IF SameVariant(stock[k], item.selectedColor, item.selectedSize)
     THEN [stock[k] EXCEPT !.quantity = Decrement(@, item.quantity)]
     ELSE stock[k]]

\* products.find(p => p.id === item.id), in the products of the closure.
ProductOf(run, item) ==
  LET Hit(p) == p.id = item.id IN FirstIndex(run.products, Hit)

\* The stock the loop writes for line n of the run's cart.
LineStock(run, n) ==
  NewStock(run.products[ProductOf(run, run.cart[n])].stock, run.cart[n])

\* prev.map(p => p.id === id ? { ...p, stock: newStock } : p); the update of
\* the products table with .eq('id', id) does the same to the rows.
SetStock(prev, id, newStock) ==
  [k \in 1 .. Len(prev) |->
     IF prev[k].id = id THEN [prev[k] EXCEPT !.stock = newStock] ELSE prev[k]]

\* The first line at or after position k whose product the closure knows
\* (if (product && product.stock)); 0 when the loop is over.
NextLine(run, k) ==
  IF \E n \in k .. Len(run.cart) : ProductOf(run, run.cart[n]) # 0
  THEN CHOOSE n \in k .. Len(run.cart) :
         /\ ProductOf(run, run.cart[n]) # 0
         /\ \A m \in k .. (n - 1) : ProductOf(run, run.cart[m]) = 0
  ELSE 0

\* A submit whose handler has returned: its closure is gone.
Returned == [pc |-> "done"]

\* The end of the handler with the cart cleared only for a recorded order.
FinishCheckoutUnlessFailed(r, run) ==
  /\ SetCart(IF run.failed THEN cart ELSE <<>>)
  /\ appliedCoupon' = None
  /\ isCheckoutOpen' = FALSE
  /\ checkoutStep' = 0
  /\ checkoutData' = EmptyCheckoutData
  /\ runs' = [runs EXCEPT ![r] = Returned]
  /\ lastOp' = [op |-> "checkoutEnd", run |-> r,
                failed |-> run.failed, cart |-> run.cart,
                before |-> run.products]
  /\ UNCHANGED products

\* The end of the handler without setAppliedCoupon(null).
FinishCheckoutKeepingCoupon(r, run) ==
  /\ SetCart(<<>>)
  /\ isCheckoutOpen' = FALSE
  /\ checkoutStep' = 0
  /\ checkoutData' = EmptyCheckoutData
  /\ runs' = [runs EXCEPT ![r] = Returned]
  /\ lastOp' = [op |-> "checkoutEnd", run |-> r,
                failed |-> run.failed, cart |-> run.cart,
                before |-> run.products]
  /\ UNCHANGED <<products, appliedCoupon>>

\* The end of handleCheckoutSubmit: setCart([]) ... setCheckoutData({...}).
FinishCheckout(r, run) ==
  /\ SetCart(<<>>)
  /\ appliedCoupon' = None
  /\ isCheckoutOpen' = FALSE
  /\ checkoutStep' = 0
  /\ checkoutData' = EmptyCheckoutData
  /\ runs' = [runs EXCEPT ![r] = Returned]
  /\ lastOp' = [op |-> "checkoutEnd", run |-> r,
                failed |-> run.failed, cart |-> run.cart,
                before |-> run.products]
  /\ UNCHANGED products

\* The for loop over the closure's cart from line k on, up to its next await
\* (the update of the products table) or to the end of the handler.  run is
\* the record of the submit as the returned call leaves it.
StockLoop(r, k, run) ==
  LET n == NextLine(run, k)
  IN IF n = 0
     THEN FinishCheckout(r, run)
     ELSE /\ products' = SetStock(products, run.cart[n].id, LineStock(run, n))
          /\ runs' = [runs EXCEPT ![r] = [run EXCEPT !.pc = "stock", !.idx = n]]
          /\ lastOp' = [op |-> "stockUpdate"]
          /\ UNCHANGED <<cart, belleCart, appliedCoupon, formVars>>

\* handleCheckoutSubmit at the last step, up to its first await: the insert
\* into the sales table.  The form can be submitted while earlier submits
\* are waiting; limit bounds the submits of a behaviour.
CheckoutSubmitWithin(limit) ==
  /\ FormClosed
  /\ isCheckoutOpen
  /\ StepValid
  /\ IsFinalStep(checkoutStep)
  /\ Len(runs) < limit
  /\ runs' = Append(runs, [pc |-> "insert", idx |-> 0, failed |-> FALSE,
                           data |-> checkoutData,
                           total |-> CartTotal(cart, appliedCoupon),
                           cart |-> cart, coupon |-> appliedCoupon,
                           products |-> products])
  /\ lastOp' = [op |-> "checkoutSubmit"]
  /\ UNCHANGED <<catalogVars, cartVars, couponVars, formVars, dbSales, sales,
                 whatsapp, adminVars,
                 filterVars, backendVars>>

CheckoutSubmit == CheckoutSubmitWithin(MaxSubmits)

\* The insert into the sales table returns: without an error, with an error,
\* or it throws.  On success the handler awaits the refreshed sales list; else
\* it goes on to the notification and the stock loop.
SaleInsertReturns(r, outcome) ==
  /\ r \in 1 .. Len(runs)
  /\ runs[r].pc = "insert"
  /\ outcome \in {"ok", "error", "throw"}
  /\ IF outcome = "ok"
     THEN /\ dbSales' = Append(dbSales, SaleData(r))
          /\ runs' = [runs EXCEPT ![r].pc = "refresh"]
          /\ lastOp' = [op |-> "saleRecorded"]
          /\ UNCHANGED <<products, cart, belleCart, appliedCoupon, formVars, whatsapp>>
     ELSE /\ whatsapp' = Append(whatsapp, OrderMessage(r))
          /\ StockLoop(r, 1, [runs[r] EXCEPT !.failed = TRUE])
          /\ UNCHANGED dbSales
  /\ UNCHANGED <<dbProducts, selectedProduct, coupons, sales, adminVars,
                 filterVars, backendVars>>

\* The select of the sales list returns (with rows, or without: a thrown
\* error is caught by the same try); then the notification and the stock loop.
SalesRefreshReturns(r, outcome) ==
  /\ r \in 1 .. Len(runs)
  /\ runs[r].pc = "refresh"
  /\ outcome \in {"data", "none"}
  /\ sales' = IF outcome = "data" THEN Reverse(dbSales) ELSE sales
  /\ whatsapp' = Append(whatsapp, OrderMessage(r))
  /\ StockLoop(r, 1, [runs[r] EXCEPT !.failed = (outcome = "none")])
  /\ UNCHANGED <<dbProducts, selectedProduct, coupons, dbSales, adminVars,
                 filterVars, backendVars>>

\* The update of the products table for the current line returns: applied,
\* refused with an error (ignored by the handler), or it throws (caught
\* outside the loop, which ends).
StockUpdateReturns(r, outcome) ==
  /\ r \in 1 .. Len(runs)
  /\ runs[r].pc = "stock"
  /\ outcome \in {"ok", "error", "throw"}
  /\ LET run == [runs[r] EXCEPT !.failed = (@ \/ outcome # "ok")]
         n == run.idx
     IN /\ dbProducts' = IF outcome = "ok"
                         THEN SetStock(dbProducts, run.cart[n].id, LineStock(run, n))
                         ELSE dbProducts
        /\ IF outcome = "throw"
           THEN FinishCheckout(r, run)
           ELSE StockLoop(r, n + 1, run)
  /\ UNCHANGED <<selectedProduct, coupons, dbSales, sales, whatsapp, adminVars,
                 filterVars, backendVars>>

\* ------------------------------------------------------------------ product form

\* The edit button of a product row: setEditingProduct(p).  The admin panel
\* is entered from the page footer, which the detail modal and the checkout
\* modal cover.
StartEdit(i) ==
  /\ editingProduct = None
  /\ selectedProduct = None
  /\ ~isCheckoutOpen
  /\ saved < MaxSaves
  /\ i \in 1 .. Len(products)
  /\ editingProduct' = Some(products[i])
  /\ lastOp' = [op |-> "startEdit", id |-> products[i].id]
  /\ UNCHANGED <<catalogVars, cartVars, couponVars, formVars, orderVars,
                 dbPending, saved,
                 filterVars, backendVars>>

\* "Cancelar" of the product form: setEditingProduct(null).
CancelEdit ==
  /\ editingProduct # None
  /\ editingProduct' = None
  /\ lastOp' = [op |-> "cancelEdit"]
  /\ UNCHANGED <<catalogVars, cartVars, couponVars, formVars, orderVars,
                 dbPending, saved,
                 filterVars, backendVars>>

\* "Novo Produto": setEditingProduct({}).  The fields of the empty object
\* are undefined: id 0 and name "" stand for the undefined id and name, the
\* other fields hold what the form and handleSaveProduct read for them
\* (colors || [], sizes || ['P', 'M', 'G'], stock || [], visible true).
EmptyForm ==
  [id |-> 0, name |-> "", price |-> 0, promoPrice |-> 0, isPromotion |-> FALSE,
   visible |-> TRUE, colors |-> <<>>, sizes |-> <<"P", "M", "G">>, stock |-> <<>>]

StartNew ==
  /\ editingProduct = None
  /\ selectedProduct = None
  /\ ~isCheckoutOpen
  /\ saved < MaxSaves
  /\ editingProduct' = Some(EmptyForm)
  /\ lastOp' = [op |-> "startNew"]
  /\ UNCHANGED <<catalogVars, cartVars, couponVars, formVars, orderVars,
                 dbPending, saved, filterVars, backendVars>>

\* onChange of the name input of the product form.
SetName(value) ==
  /\ editingProduct # None
  /\ editingProduct' = Some([editingProduct[1] EXCEPT !.name = value])
  /\ lastOp' = [op |-> "setName"]
  /\ UNCHANGED <<catalogVars, cartVars, couponVars, formVars, orderVars,
                 dbPending, saved, filterVars, backendVars>>

\* parseFloat on the value of the price input, for the prices the model types.
ParseFloat(value) ==
  CASE value = "80" -> 80

\* onChange of the price input of the product form.
SetPrice(value) ==
  /\ editingProduct # None
  /\ editingProduct' = Some([editingProduct[1] EXCEPT !.price = ParseFloat(value)])
  /\ lastOp' = [op |-> "setPrice"]
  /\ UNCHANGED <<catalogVars, cartVars, couponVars, formVars, orderVars,
                 dbPending, saved, filterVars, backendVars>>

\* parseInt on the value of a number input: None stands for NaN.
ParseInt(value) ==
  CASE value = "-1" -> Some(-1)
    [] value = "0" -> Some(0)
    [] value = "1" -> Some(1)
    [] value = "2" -> Some(2)
    [] OTHER -> None

\* parseInt(e.target.value) || 0: NaN and 0 are falsy.
ParseQty(value) ==
  LET n == ParseInt(value)
  IN IF n = None \/ n = Some(0) THEN 0 ELSE n[1]

\* The variant pushed whether the stock list has it or not.
WithQuantityPushed(stock, color, size, newQty) ==
  Append(stock, [color |-> color, size |-> size, quantity |-> newQty])

\* onChange of the quantity input of (color, size): the variant's quantity is
\* replaced, or the variant is pushed when the stock list lacks it.
WithQuantity(stock, color, size, newQty) ==
  LET Hit(s) == SameVariant(s, color, size)
      existingIdx == FirstIndex(stock, Hit)
  IN IF existingIdx # 0
     THEN [stock EXCEPT ![existingIdx].quantity = newQty]
     ELSE Append(stock, [color |-> color, size |-> size, quantity |-> newQty])

SetStockQuantity(color, size, value) ==
  /\ editingProduct # None
  /\ color \in Range(editingProduct[1].colors)
  /\ size \in Range(editingProduct[1].sizes)
  /\ value \in QtyInputs
  /\ editingProduct' =
       Some([editingProduct[1] EXCEPT
               !.stock = WithQuantity(@, color, size, ParseQty(value))])
  /\ lastOp' = [op |-> "setStockQuantity"]
  /\ UNCHANGED <<catalogVars, cartVars, couponVars, formVars, orderVars,
                 dbPending, saved,
                 filterVars, backendVars>>

\* A color button of the product form: the color is dropped from the
\* selected colors, or put at their end.
ToggleColor(name) ==
  /\ editingProduct # None
  /\ LET colors == editingProduct[1].colors
         Keep(i) == colors[i] # name
         newColors == IF name \in Range(colors)
                      THEN FilterIdx(colors, Keep, 1)
                      ELSE Append(colors, name)
     IN editingProduct' = Some([editingProduct[1] EXCEPT !.colors = newColors])
  /\ lastOp' = [op |-> "toggleColor"]
  /\ UNCHANGED <<catalogVars, cartVars, couponVars, formVars, orderVars,
                 dbPending, saved,
                 filterVars, backendVars>>

\* The filter on the sizes alone.
SelectedOnlyBySize(stock, colors, sizes) ==
  LET Keep(i) == stock[i].size \in Range(sizes)
  IN FilterIdx(stock, Keep, 1)

\* finalStock.filter(s => colors.includes(s.color) && sizes.includes(s.size))
SelectedOnly(stock, colors, sizes) ==
  LET Keep(i) == stock[i].color \in Range(colors) /\ stock[i].size \in Range(sizes)
  IN FilterIdx(stock, Keep, 1)

\* The loops pushing a variant for every pair, present or not.
RECURSIVE AddMissingAlways(_, _, _, _, _)
AddMissingAlways(stock, colors, sizes, ci, si) ==
  IF ci > Len(colors) THEN stock
  ELSE IF si > Len(sizes) THEN AddMissingAlways(stock, colors, sizes, ci + 1, 1)
  ELSE AddMissingAlways(Append(stock, [color |-> colors[ci], size |-> sizes[si],
                                       quantity |-> 0]),
                        colors, sizes, ci, si + 1)

\* for (const c of colors) for (const s of sizes): push the missing variants
\* with quantity 0, from pair (ci, si) on.
RECURSIVE AddMissing(_, _, _, _, _)
AddMissing(stock, colors, sizes, ci, si) ==
  IF ci > Len(colors) THEN stock
  ELSE IF si > Len(sizes) THEN AddMissing(stock, colors, sizes, ci + 1, 1)
  ELSE LET Hit(item) == SameVariant(item, colors[ci], sizes[si])
       IN AddMissing(IF FirstIndex(stock, Hit) = 0
                     THEN Append(stock, [color |-> colors[ci], size |-> sizes[si],
                                         quantity |-> 0])
                     ELSE stock,
                     colors, sizes, ci, si + 1)

\* finalStock of handleSaveProduct.
FinalStock(editing) ==
  AddMissing(SelectedOnly(editing.stock, editing.colors, editing.sizes),
             editing.colors, editing.sizes, 1, 1)

\* A call on the products table: the update or the insert of a row, the
\* update of its visible column, its delete; id is the .eq('id', ...) of the
\* call, or the optimistic id of the inserted product.
DbCall(call, id, row) == [call |-> call, id |-> id, row |-> row]

\* The save without the test of the name.
NameMissingNever(editing) == FALSE

\* !editingProduct.name
NameMissing(editing) == editing.name = ""

\* handleSaveProduct: nothing without a name; else the optimistic update of
\* the catalog (a product with an id replaces its entry, a new one is put at
\* the end under the id Date.now()), then the update or the insert of its
\* row is sent.
HandleSaveProduct ==
  /\ editingProduct # None
  /\ IF NameMissing(editingProduct[1])
     THEN /\ lastOp' = [op |-> "saveProduct", ok |-> FALSE]
          /\ UNCHANGED <<products, adminVars>>
     ELSE LET editing == editingProduct[1]
              tempId == IF editing.id # 0 THEN editing.id ELSE DateNow
              newProductState == [editing EXCEPT !.id = tempId,
                                                 !.stock = FinalStock(editing)]
          IN /\ IF editing.id # 0
                THEN /\ products' = [k \in 1 .. Len(products) |->
                                       IF products[k].id = editing.id
                                       THEN newProductState ELSE products[k]]
                     /\ dbPending' = Append(dbPending,
                                            DbCall("update", editing.id, newProductState))
                ELSE /\ products' = Append(products, newProductState)
                     /\ dbPending' = Append(dbPending,
                                            DbCall("insert", tempId, newProductState))
             /\ editingProduct' = None
             /\ saved' = saved + 1
             /\ lastOp' = [op |-> "saveProduct", ok |-> TRUE]
  /\ UNCHANGED <<dbProducts, cartVars, couponVars, formVars, orderVars,
                 filterVars, backendVars>>

\* The update of a product row sent by handleSaveProduct returns: applied, or
\* refused (the handler reads neither answer).
ProductUpdateReturns(k, outcome) ==
  /\ k \in 1 .. Len(dbPending)
  /\ dbPending[k].call = "update"
  /\ outcome \in {"ok", "error"}
  /\ dbProducts' = IF outcome = "ok"
                   THEN [j \in 1 .. Len(dbProducts) |->
                           IF dbProducts[j].id = dbPending[k].id
                           THEN dbPending[k].row ELSE dbProducts[j]]
                   ELSE dbProducts
  /\ dbPending' = LET Keep(j) == j # k IN FilterIdx(dbPending, Keep, 1)
  /\ lastOp' = [op |-> "productUpdated", ok |-> (outcome = "ok")]
  /\ UNCHANGED <<products, cartVars, couponVars, formVars, orderVars,
                 editingProduct, saved,
                 filterVars, backendVars>>

\* The insert of a product row returns.  With the row (data), the table has
\* given it the next id and the entry of the optimistic id, if the catalog
\* still has one, becomes mapProductFromDB(data); without (an error), nothing.
ProductInsertReturns(k, outcome) ==
  /\ k \in 1 .. Len(dbPending)
  /\ dbPending[k].call = "insert"
  /\ outcome \in {"ok", "error"}
  /\ IF outcome = "ok"
     THEN LET data == [dbPending[k].row EXCEPT !.id = dbNextId]
          IN /\ dbProducts' = Append(dbProducts, data)
             /\ dbNextId' = dbNextId + 1
             /\ products' = [j \in 1 .. Len(products) |->
                               IF products[j].id = dbPending[k].id
                               THEN data ELSE products[j]]
     ELSE UNCHANGED <<products, dbProducts, dbNextId>>
  /\ dbPending' = LET Keep(j) == j # k IN FilterIdx(dbPending, Keep, 1)
  /\ lastOp' = [op |-> "productInserted", ok |-> (outcome = "ok")]
  /\ UNCHANGED <<cartVars, couponVars, formVars, orderVars, editingProduct, saved,
                 filterVars, dbCoupons, couponCalls, peer>>

\* deleteProduct(id), confirmed: the entry leaves the catalog, then the
\* delete of the row is sent.
DeleteProduct(i) ==
  /\ editingProduct = None
  /\ selectedProduct = None
  /\ ~isCheckoutOpen
  /\ Len(dbPending) < MaxPending
  /\ i \in 1 .. Len(products)
  /\ products' = LET Keep(j) == products[j].id # products[i].id
                 IN FilterIdx(products, Keep, 1)
  /\ dbPending' = Append(dbPending, DbCall("delete", products[i].id, <<>>))
  /\ lastOp' = [op |-> "deleteProduct", id |-> products[i].id]
  /\ UNCHANGED <<dbProducts, cartVars, couponVars, formVars, orderVars,
                 editingProduct, saved, filterVars, backendVars>>

\* The delete of a product row returns.
ProductDeleteReturns(k, outcome) ==
  /\ k \in 1 .. Len(dbPending)
  /\ dbPending[k].call = "delete"
  /\ outcome \in {"ok", "error"}
  /\ dbProducts' = IF outcome = "ok"
                   THEN LET Keep(j) == dbProducts[j].id # dbPending[k].id
                        IN FilterIdx(dbProducts, Keep, 1)
                   ELSE dbProducts
  /\ dbPending' = LET Keep(j) == j # k IN FilterIdx(dbPending, Keep, 1)
  /\ lastOp' = [op |-> "productDeleted", ok |-> (outcome = "ok")]
  /\ UNCHANGED <<products, cartVars, couponVars, formVars, orderVars,
                 editingProduct, saved, filterVars, backendVars>>

\* toggleProductVisibility(product): the entry is shown or hidden, then the
\* update of the visible column is sent.
ToggleProductVisibility(i) ==
  /\ editingProduct = None
  /\ selectedProduct = None
  /\ ~isCheckoutOpen
  /\ Len(dbPending) < MaxPending
  /\ i \in 1 .. Len(products)
  /\ LET newStatus == ~products[i].visible
     IN /\ products' = [j \in 1 .. Len(products) |->
                          IF products[j].id = products[i].id
                          THEN [products[j] EXCEPT !.visible = newStatus]
                          ELSE products[j]]
        /\ dbPending' = Append(dbPending,
                               DbCall("visible", products[i].id, newStatus))
  /\ lastOp' = [op |-> "toggleVisibility", id |-> products[i].id]
  /\ UNCHANGED <<dbProducts, cartVars, couponVars, formVars, orderVars,
                 editingProduct, saved, filterVars, backendVars>>

\* The update of a visible column returns.
VisibilityUpdateReturns(k, outcome) ==
  /\ k \in 1 .. Len(dbPending)
  /\ dbPending[k].call = "visible"
  /\ outcome \in {"ok", "error"}
  /\ dbProducts' = IF outcome = "ok"
                   THEN [j \in 1 .. Len(dbProducts) |->
                           IF dbProducts[j].id = dbPending[k].id
                           THEN [dbProducts[j] EXCEPT !.visible = dbPending[k].row]
                           ELSE dbProducts[j]]
                   ELSE dbProducts
  /\ dbPending' = LET Keep(j) == j # k IN FilterIdx(dbPending, Keep, 1)
  /\ lastOp' = [op |-> "visibilityUpdated", ok |-> (outcome = "ok")]
  /\ UNCHANGED <<products, cartVars, couponVars, formVars, orderVars,
                 editingProduct, saved, filterVars, backendVars>>

\* ------------------------------------------------------------------ second client

\* The select of the products table at the start of the page on the other
\* device returns (the table is not empty there).
PeerLoads ==
  /\ peer.pc = "loading"
  /\ dbProducts # <<>>
  /\ peer' = [peer EXCEPT !.products = dbProducts, !.pc = "shopping"]
  /\ lastOp' = [op |-> "peerLoaded"]
  /\ UNCHANGED <<catalogVars, cartVars, couponVars, formVars, orderVars,
                 adminVars, filterVars, dbNextId, dbCoupons, couponCalls>>

\* addToCart on the other device, for a product of its catalog.
PeerAddToCart(i, color, size) ==
  /\ peer.pc = "shopping"
  /\ i \in 1 .. Len(peer.products)
  /\ LET product == peer.products[i]
         variantStock == VariantStock(product.stock, color, size)
         currentInCart == CurrentInCart(peer.cart, product.id, color, size)
     IN /\ color \in Range(product.colors)
        /\ size \in Range(product.sizes)
        /\ peer' = IF OutOfStock(currentInCart, variantStock) THEN peer
                   ELSE [peer EXCEPT !.cart = AddLine(@, product, color, size)]
        /\ lastOp' = [op |-> "peerAddToCart",
                      ok |-> ~OutOfStock(currentInCart, variantStock)]
  /\ UNCHANGED <<catalogVars, cartVars, couponVars, formVars, orderVars,
                 adminVars, filterVars, dbNextId, dbCoupons, couponCalls>>

\* handleCheckoutSubmit on the other device, up to its first await: the
\* handler holds the cart, the total and the products of the device.
PeerSubmit ==
  /\ peer.pc = "shopping"
  /\ peer.cart # <<>>
  /\ peer' = [peer EXCEPT !.pc = "insert",
                          !.run = [products |-> peer.products, cart |-> peer.cart,
                                   total |-> CartTotal(peer.cart, None)]]
  /\ lastOp' = [op |-> "peerSubmit"]
  /\ UNCHANGED <<catalogVars, cartVars, couponVars, formVars, orderVars,
                 adminVars, filterVars, dbNextId, dbCoupons, couponCalls>>

\* saleData of the other device's submit.
PeerSaleData ==
  [run |-> 0, customer_name |-> "Bia", customer_address |-> "Rua 2",
   payment_method |-> "Pix", total |-> peer.run.total, items |-> peer.run.cart]

\* The for loop of the other device from line k on, up to its next await or
\* to the end of the handler, where its cart is cleared.
PeerStockLoop(k) ==
  LET n == NextLine(peer.run, k)
  IN IF n = 0
     THEN peer' = [peer EXCEPT !.pc = "done", !.cart = <<>>, !.idx = 0]
     ELSE peer' = [peer EXCEPT
                     !.products = SetStock(@, peer.run.cart[n].id,
                                           LineStock(peer.run, n)),
                     !.pc = "stock", !.idx = n]

\* A call of the other device's submit returns without an error: the insert
\* of the sale, the select of the sales, the update of a product row.
PeerCallReturns ==
  /\ peer.pc \in {"insert", "refresh", "stock"}
  /\ CASE peer.pc = "insert" ->
            /\ dbSales' = Append(dbSales, PeerSaleData)
            /\ peer' = [peer EXCEPT !.pc = "refresh"]
            /\ UNCHANGED dbProducts
       [] peer.pc = "refresh" ->
            /\ PeerStockLoop(1)
            /\ UNCHANGED <<dbSales, dbProducts>>
       [] peer.pc = "stock" ->
            /\ dbProducts' = SetStock(dbProducts, peer.run.cart[peer.idx].id,
                                      LineStock(peer.run, peer.idx))
            /\ PeerStockLoop(peer.idx + 1)
            /\ UNCHANGED dbSales
  /\ lastOp' = [op |-> "peerCallReturned", pc |-> peer.pc]
  /\ UNCHANGED <<products, cartVars, couponVars, formVars, runs, sales, whatsapp,
                 adminVars, filterVars, dbNextId, dbCoupons, couponCalls>>

\* ------------------------------------------------------------------ coupons tab

\* String.prototype.trim, on the texts the model types.
Trim(text) ==
  CASE text = " vip20 " -> "vip20"
    [] text = " " -> ""
    [] OTHER -> text

\* Number(value) on the value of a number input ('' when the field is empty
\* or does not hold a number).
NumberOf(value) ==
  CASE value = "" -> 0
    [] value = "10" -> 10
    [] value = "100" -> 100
    [] value = "150" -> 150
    [] value = "-5" -> -5

\* "Criar" of the coupons tab: nothing without a code or with a discount of
\* 0, nothing for a code the coupons have; else the coupon is put at the end
\* of the coupons and its insert is sent.
CreateCoupon(codeValue, discValue) ==
  LET code == ToUpperCase(Trim(codeValue))
      discount == NumberOf(discValue)
      newCoupon == [code |-> code, discount |-> discount]
  IN /\ Len(couponCalls) + Len(dbCoupons) < MaxPending
     /\ IF code = "" \/ discount = 0
           \/ \E k \in 1 .. Len(coupons) : coupons[k].code = code
        THEN /\ lastOp' = [op |-> "createCoupon", ok |-> FALSE]
             /\ UNCHANGED <<coupons, couponCalls>>
        ELSE /\ coupons' = Append(coupons, newCoupon)
             /\ couponCalls' = Append(couponCalls,
                                      [call |-> "insert", coupon |-> newCoupon])
             /\ lastOp' = [op |-> "createCoupon", ok |-> TRUE]
     /\ UNCHANGED <<catalogVars, cartVars, appliedCoupon, formVars, orderVars,
                    adminVars, filterVars, dbNextId, dbCoupons, peer>>

\* The trash button of a coupon, confirmed: the coupons of that code leave
\* the list, then the delete of the row is sent.
DeleteCoupon(i) ==
  /\ Len(couponCalls) < MaxPending
  /\ i \in 1 .. Len(coupons)
  /\ coupons' = LET Keep(k) == coupons[k].code # coupons[i].code
                IN FilterIdx(coupons, Keep, 1)
  /\ couponCalls' = Append(couponCalls, [call |-> "delete", coupon |-> coupons[i]])
  /\ lastOp' = [op |-> "deleteCoupon"]
  /\ UNCHANGED <<catalogVars, cartVars, appliedCoupon, formVars, orderVars,
                 adminVars, filterVars, dbNextId, dbCoupons, peer>>

\* A call on the coupons table returns: applied, or refused (an alert for an
\* insert, nothing for a delete).
CouponCallReturns(k, outcome) ==
  /\ k \in 1 .. Len(couponCalls)
  /\ outcome \in {"ok", "error"}
  /\ dbCoupons' =
       IF outcome = "error" THEN dbCoupons
       ELSE IF couponCalls[k].call = "insert"
       THEN Append(dbCoupons, couponCalls[k].coupon)
       ELSE LET Keep(j) == dbCoupons[j].code # couponCalls[k].coupon.code
            IN FilterIdx(dbCoupons, Keep, 1)
  /\ couponCalls' = LET Keep(j) == j # k IN FilterIdx(couponCalls, Keep, 1)
  /\ lastOp' = [op |-> "couponCallReturned", ok |-> (outcome = "ok")]
  /\ UNCHANGED <<catalogVars, cartVars, couponVars, formVars, orderVars,
                 adminVars, filterVars, dbNextId, peer>>

\* ------------------------------------------------------------------ sales panel
\* Strings of the sales panel are sequences of characters; instants are hours
\* since the midnight (UTC) that begins day 0, dates are day numbers.

\* String.prototype.toLowerCase, on the letters the model's names use.
LowerChar(c) ==
  CASE c = "A" -> "a" [] c = "B" -> "b" [] c = "D" -> "d" [] c = "N" -> "n"
    [] c = "R" -> "r" [] OTHER -> c

ToLowerCase(chars) == [i \in 1 .. Len(chars) |-> LowerChar(chars[i])]

\* String.prototype.includes
Includes(chars, term) ==
  \E i \in 0 .. (Len(chars) - Len(term)) :
    \A j \in 1 .. Len(term) : chars[i + j] = term[j]

\* date.setHours(0, 0, 0, 0): the instant of the local midnight that begins
\* the local day of instant t.
SetHoursZero(t, offset) == ((t - offset) \div 24) * 24 + offset

\* new Date('YYYY-MM-DD'): the midnight (UTC) that begins the day.
ParseDate(day) == day * 24

\* startDateValue and endDateValue: the parsed date, setHours(0,0,0,0), plus
\* getTimezoneOffset() * 60000 ms.
BoundValue(day, offset) == SetHoursZero(ParseDate(day), offset) + offset

\* dateMatch of filteredSales.
DateMatch(sale, start, end, offset) ==
  LET saleDate == SetHoursZero(sale.created_at, offset)
      afterStart == ~(start # None /\ saleDate < BoundValue(start[1], offset))
  IN /\ afterStart
     /\ ~(end # None /\ afterStart /\ saleDate > BoundValue(end[1], offset))

\* searchMatch of filteredSales.
SearchMatch(sale, search) ==
  search # <<>> =>
    LET term == ToLowerCase(search)
    IN \/ Includes(ToLowerCase(sale.customer_name), term)
       \/ \E k \in 1 .. Len(sale.items) :
            Includes(ToLowerCase(sale.items[k].name), term)

\* filteredSales
FilteredSales(orders, start, end, search, offset) ==
  LET Keep(i) == DateMatch(orders[i], start, end, offset)
                   /\ SearchMatch(orders[i], search)
  IN FilterIdx(orders, Keep, 1)

\* filteredSales.reduce((acc, s) => acc + s.total, 0), from order i on.
RECURSIVE TotalRevenue(_, _)
TotalRevenue(orders, i) ==
  IF i > Len(orders) THEN 0 ELSE orders[i].total + TotalRevenue(orders, i + 1)

\* The division without its guard.
AverageTicketUnguarded(totalRevenue, totalOrders) ==
  [num |-> totalRevenue, den |-> totalOrders]

\* totalOrders > 0 ? totalRevenue / totalOrders : 0, as the exact fraction
\* num / den (the code divides in floating point).
AverageTicket(totalRevenue, totalOrders) ==
  IF totalOrders > 0 THEN [num |-> totalRevenue, den |-> totalOrders]
  ELSE [num |-> 0, den |-> 1]

\* productSales[item.name] = (productSales[item.name] || 0) + item.quantity;
\* the properties of the object, in the order they were created.
AddSale(productSales, item) ==
  LET Hit(e) == e.name = item.name
      k == FirstIndex(productSales, Hit)
  IN IF k = 0
     THEN Append(productSales, [name |-> item.name, count |-> item.quantity])
     ELSE [productSales EXCEPT ![k].count = @ + item.quantity]

\* sale.items.forEach(...), from item k on.
RECURSIVE AddItems(_, _, _)
AddItems(productSales, items, k) ==
  IF k > Len(items) THEN productSales
  ELSE AddItems(AddSale(productSales, items[k]), items, k + 1)

\* filteredSales.forEach(...), from order i on.
RECURSIVE ProductSales(_, _, _)
ProductSales(productSales, orders, i) ==
  IF i > Len(orders) THEN productSales
  ELSE ProductSales(AddItems(productSales, orders[i].items, 1), orders, i + 1)

Digits == {"0", "1", "2", "3", "4", "5", "6", "7", "8", "9"}

DigitValue(c) ==
  CASE c = "0" -> 0 [] c = "1" -> 1 [] c = "2" -> 2 [] c = "3" -> 3 [] c = "4" -> 4
    [] c = "5" -> 5 [] c = "6" -> 6 [] c = "7" -> 7 [] c = "8" -> 8 [] c = "9" -> 9

\* A property key that is an integer index: decimal digits without a leading
\* zero (the limit of 2^32 - 2 is beyond the names of the model).
IsArrayIndex(name) ==
  /\ name # <<>>
  /\ \A i \in 1 .. Len(name) : name[i] \in Digits
  /\ Len(name) = 1 \/ name[1] # "0"

RECURSIVE IndexValue(_)
IndexValue(name) ==
  IF name = <<>> THEN 0
  ELSE IndexValue(SubSeq(name, 1, Len(name) - 1)) * 10 + DigitValue(name[Len(name)])

\* Entries in ascending order of their integer keys.
RECURSIVE AscendingKeys(_)
AscendingKeys(entries) ==
  IF entries = {} THEN <<>>
  ELSE LET e == CHOOSE e \in entries :
                  \A o \in entries : IndexValue(e.name) =< IndexValue(o.name)
       IN <<e>> \o AscendingKeys(entries \ {e})

\* Object.entries(productSales): the integer keys first, in ascending order,
\* then the other keys in the order they were created.
ObjectEntries(productSales) ==
  LET IsIndex(e) == IsArrayIndex(e.name)
      IsName(e) == ~IsArrayIndex(e.name)
  IN AscendingKeys(Range(SelectSeq(productSales, IsIndex)))
       \o SelectSeq(productSales, IsName)

\* One step of a stable sort by b[1] - a[1]: entry e goes after the entries
\* that count as much or more.
InsertSorted(sorted, e) ==
  LET before == {k \in 0 .. Len(sorted) :
                   \A j \in 1 .. k : sorted[j].count >= e.count}
      at == CHOOSE k \in before : \A m \in before : m <= k
  IN SubSeq(sorted, 1, at) \o <<e>> \o SubSeq(sorted, at + 1, Len(sorted))

\* Object.entries(productSales).sort((a, b) => b[1] - a[1])
RECURSIVE SortByCount(_, _, _)
SortByCount(sorted, entries, k) ==
  IF k > Len(entries) THEN sorted
  ELSE SortByCount(InsertSorted(sorted, entries[k]), entries, k + 1)

\* salesInsights
SalesInsights(filtered) ==
  LET totalRevenue == TotalRevenue(filtered, 1)
      totalOrders == Len(filtered)
      ranked == SortByCount(<<>>, ObjectEntries(ProductSales(<<>>, filtered, 1)), 1)
  IN [totalRevenue |-> totalRevenue,
      totalOrders |-> totalOrders,
      averageTicket |-> AverageTicket(totalRevenue, totalOrders),
      bestSellingProduct |-> IF ranked # <<>> THEN ranked[1].name
                             ELSE <<"N", "/", "A">>,
      bestSellingCount |-> IF ranked # <<>> THEN ranked[1].count ELSE 0]

\* onChange of the start date input: the day picked, or None when cleared.
SetSalesFilterStart(value) ==
  /\ salesFilterStart' = value
  /\ lastOp' = [op |-> "setSalesFilter"]
  /\ UNCHANGED <<catalogVars, cartVars, couponVars, formVars, orderVars, adminVars, backendVars,
                 salesFilterEnd, salesFilterSearch, timezoneOffset>>

\* onChange of the end date input.
SetSalesFilterEnd(value) ==
  /\ salesFilterEnd' = value
  /\ lastOp' = [op |-> "setSalesFilter"]
  /\ UNCHANGED <<catalogVars, cartVars, couponVars, formVars, orderVars, adminVars, backendVars,
                 salesFilterStart, salesFilterSearch, timezoneOffset>>

\* onChange of the search field.
SetSalesFilterSearch(value) ==
  /\ salesFilterSearch' = value
  /\ lastOp' = [op |-> "setSalesFilter"]
  /\ UNCHANGED <<catalogVars, cartVars, couponVars, formVars, orderVars, adminVars, backendVars,
                 salesFilterStart, salesFilterEnd, timezoneOffset>>

\* setFilterToday: both dates are the day (UTC) of the click.
SetFilterToday(today) ==
  /\ salesFilterStart' = Some(today)
  /\ salesFilterEnd' = Some(today)
  /\ lastOp' = [op |-> "setSalesFilter"]
  /\ UNCHANGED <<catalogVars, cartVars, couponVars, formVars, orderVars, adminVars, backendVars,
                 salesFilterSearch, timezoneOffset>>

\* clearFilters
ClearFilters ==
  /\ salesFilterStart' = None
  /\ salesFilterEnd' = None
  /\ salesFilterSearch' = <<>>
  /\ lastOp' = [op |-> "setSalesFilter"]
  /\ UNCHANGED <<catalogVars, cartVars, couponVars, formVars, orderVars, adminVars, backendVars,
                 timezoneOffset>>

\* The sales tab as rendered: filteredSales and salesInsights for the sales
\* and the filters of the state.
RenderSales ==
  LET filtered == FilteredSales(sales, salesFilterStart, salesFilterEnd,
                                salesFilterSearch, timezoneOffset)
  IN /\ lastOp' = [op |-> "renderSales", filteredSales |-> filtered,
                   salesInsights |-> SalesInsights(filtered)]
     /\ UNCHANGED <<catalogVars, cartVars, couponVars, formVars, orderVars,
                    adminVars, filterVars, backendVars>>

\* ------------------------------------------------------------------ reload

\* The page is loaded again on the same device: every useState starts from
\* its initial value, handlers that were waiting are gone, and the start-up
\* effect reads the cart from localStorage and the tables from the backend
\* (the products table is not empty where the page is reloaded).
Reload ==
  /\ SetCart(IF belleCart # None THEN JsonParse(belleCart[1]) ELSE <<>>)
  /\ products' = dbProducts
  /\ selectedProduct' = None
  /\ coupons' = IF dbCoupons # <<>> THEN dbCoupons ELSE INITIAL_COUPONS
  /\ appliedCoupon' = None
  /\ isCheckoutOpen' = FALSE
  /\ checkoutStep' = 0
  /\ checkoutData' = EmptyCheckoutData
  /\ runs' = [r \in 1 .. Len(runs) |-> Returned]
  /\ sales' = Reverse(dbSales)
  /\ editingProduct' = None
  /\ salesFilterStart' = None
  /\ salesFilterEnd' = None
  /\ salesFilterSearch' = <<>>
  /\ lastOp' = [op |-> "reload"]
  /\ UNCHANGED <<dbProducts, dbSales, whatsapp, dbPending, saved, timezoneOffset,
                 backendVars>>

\* ------------------------------------------------------------------ specification

\* The state once the start-up effect has run: the cart is the one found in
\* localStorage ('belle_cart') and saved back by the effect on [cart], the
\* catalog, the coupons and the sales are the loaded ones (INITIAL_COUPONS
\* when the coupons table is empty), the sales filters are empty; offset is
\* what the browser's getTimezoneOffset() returns, in hours.
InitSite(catalog, storedCart, loadedCoupons, loadedSales, offset, otherClient) ==
  /\ products = catalog
  /\ dbProducts = catalog
  /\ cart = storedCart
  /\ selectedProduct = None
  /\ coupons = loadedCoupons
  /\ appliedCoupon = None
  /\ isCheckoutOpen = FALSE
  /\ checkoutStep = 0
  /\ checkoutData = EmptyCheckoutData
  /\ runs = <<>>
  /\ dbSales = loadedSales
  /\ sales = loadedSales
  /\ whatsapp = <<>>
  /\ editingProduct = None
  /\ dbPending = <<>>
  /\ saved = 0
  /\ salesFilterStart = None
  /\ salesFilterEnd = None
  /\ salesFilterSearch = <<>>
  /\ timezoneOffset = offset
  /\ belleCart = Some(JsonStringify(storedCart))
  /\ dbNextId = Len(catalog) + 1
  /\ dbCoupons = IF loadedCoupons = INITIAL_COUPONS THEN <<>> ELSE loadedCoupons
  /\ couponCalls = <<>>
  /\ peer = otherClient
  /\ lastOp = [op |-> "init"]

\* No other device has the application open.
NoPeer == [products |-> <<>>, cart |-> <<>>, pc |-> "away", idx |-> 0,
           run |-> [products |-> <<>>, cart |-> <<>>, total |-> 0]]

InitApp(catalog, storedCart, loadedCoupons, loadedSales, offset) ==
  InitSite(catalog, storedCart, loadedCoupons, loadedSales, offset, NoPeer)

\* A shop with no sale yet, seen from a browser at UTC-3.
InitState(catalog, storedCart, loadedCoupons) ==
  InitApp(catalog, storedCart, loadedCoupons, <<>>, 3)

\* The coupons table was empty: the coupons are INITIAL_COUPONS.
InitWith(catalog, storedCart) == InitState(catalog, storedCart, INITIAL_COUPONS)

\* A first visit: nothing is stored.
Init == \E catalog \in LoadedCatalogs : InitWith(catalog, <<>>)

\* The carts an earlier visit can have stored: what addToCart builds from the
\* loaded catalog, with as many clicks as the catalog has units in stock.
RECURSIVE Units(_, _)
Units(stock, k) ==
  IF k > Len(stock) THEN 0 ELSE stock[k].quantity + Units(stock, k + 1)

RECURSIVE TotalStock(_, _)
TotalStock(catalog, i) ==
  IF i > Len(catalog) THEN 0
  ELSE Units(catalog[i].stock, 1) + TotalStock(catalog, i + 1)

Clicks ==
  {<<i, color, size>> : i \in 1 .. Len(LoadedProducts),
                        color \in {"Preto", "Vinho"}, size \in {"P", "M"}}

Click(lines, click) ==
  LET product == LoadedProducts[click[1]]
  IN IF OutOfStock(CurrentInCart(lines, product.id, click[2], click[3]),
                   VariantStock(product.stock, click[2], click[3]))
     THEN lines
     ELSE AddLine(lines, product, click[2], click[3])

RECURSIVE CartsAfter(_)
CartsAfter(n) ==
  IF n = 0 THEN {<<>>}
  ELSE LET before == CartsAfter(n - 1)
       IN before \cup {Click(lines, click) : lines \in before, click \in Clicks}

StoredCarts == CartsAfter(TotalStock(LoadedProducts, 1))

InitRestored == \E storedCart \in StoredCarts : InitWith(LoadedProducts, storedCart)

Shopper ==
  \/ \E i \in 1 .. Len(products) : SelectProduct(i)
  \/ CloseProduct
  \/ \E color \in {"Preto", "Vinho"}, size \in {"P", "M"} : AddToCart(color, size)
  \/ \E index \in 1 .. Len(cart) : RemoveFromCart(index)

Checkout ==
  \/ OpenCheckout
  \/ CancelCheckout
  \/ \E value \in NameInputs \cup AddressInputs \cup PaymentMethods :
       SetCheckoutField(value)
  \/ CheckoutBack
  \/ CheckoutContinue
  \/ CheckoutSubmit
  \/ \E r \in 1 .. Len(runs), outcome \in {"ok", "error", "throw"} :
       SaleInsertReturns(r, outcome)
  \/ \E r \in 1 .. Len(runs), outcome \in {"data", "none"} :
       SalesRefreshReturns(r, outcome)
  \/ \E r \in 1 .. Len(runs), outcome \in {"ok", "error", "throw"} :
       StockUpdateReturns(r, outcome)

Operator ==
  \/ \E i \in 1 .. Len(products) : StartEdit(i)
  \/ CancelEdit
  \/ \E color \in {"Preto", "Vinho"}, size \in {"P", "M"}, value \in QtyInputs :
       SetStockQuantity(color, size, value)
  \/ HandleSaveProduct
  \/ \E k \in 1 .. Len(dbPending), outcome \in {"ok", "error"} :
       ProductUpdateReturns(k, outcome)

ApplyCoupon == \E couponCode \in CouponInputs : HandleApplyCoupon(couponCode)

\* A first visit: the shopper fills the cart.
Next == Shopper \/ ApplyCoupon

Spec == Init /\ [][Next]_vars

\* The checkout of a restored cart.
NextCheckout == ApplyCoupon \/ Checkout

SpecCheckout == InitRestored /\ [][NextCheckout]_vars

\* The checkout of a restored cart, with the operator editing the stock.
NextStock == Checkout \/ Operator

SpecStock == InitRestored /\ [][NextStock]_vars

\* ------------------------------------------------------------------ repeated submit specification

\* One unit of the first variant of product 1 waits in the cart.
InitResubmit ==
  InitWith(LoadedProducts, <<CartItem(LoadedProducts[1], "Preto", "P", 1)>>)

\* The checkout of that cart, with one submit more than MaxSubmits.
NextResubmit ==
  \/ OpenCheckout
  \/ CancelCheckout
  \/ \E value \in NameInputs \cup AddressInputs \cup PaymentMethods :
       SetCheckoutField(value)
  \/ CheckoutBack
  \/ CheckoutContinue
  \/ CheckoutSubmitWithin(MaxSubmits + 1)
  \/ \E r \in 1 .. Len(runs), outcome \in {"ok", "error", "throw"} :
       SaleInsertReturns(r, outcome)
  \/ \E r \in 1 .. Len(runs), outcome \in {"data", "none"} :
       SalesRefreshReturns(r, outcome)
  \/ \E r \in 1 .. Len(runs), outcome \in {"ok", "error", "throw"} :
       StockUpdateReturns(r, outcome)

SpecResubmit == InitResubmit /\ [][NextResubmit]_vars

\* ------------------------------------------------------------------ pricing specification

\* The coupons table as the admin panel fills it: codes are stored in upper
\* case (code.trim().toUpperCase()) and no code is stored twice.
LoadedCoupons ==
  << [code |-> "BELLE10", discount |-> 10], [code |-> "VIP20", discount |-> 20] >>

\* What the shopper types in the coupon field: the stored codes in upper,
\* lower and mixed case, the beginning of a code, an unknown code.
TypedCodes ==
  {"BELLE10", "belle10", "Belle10", "VIP20", "vip20", "Vip20", "belle", "nope"}

\* Products by the ways a price and a promotion can be set: no promotion, a
\* promotion with its price, a promotion without a price, a promotional
\* price without the promotion.
PricedProduct(id) ==
  CASE id = 1 -> [id |-> 1, name |-> "Renda", price |-> 100, promoPrice |-> 0,
                  isPromotion |-> FALSE]
    [] id = 2 -> [id |-> 2, name |-> "Velvet", price |-> 50, promoPrice |-> 40,
                  isPromotion |-> TRUE]
    [] id = 3 -> [id |-> 3, name |-> "Cetim", price |-> 30, promoPrice |-> 0,
                  isPromotion |-> TRUE]
    [] id = 4 -> [id |-> 4, name |-> "Tule", price |-> 45, promoPrice |-> 20,
                  isPromotion |-> FALSE]

PricedLines ==
  {CartItem(PricedProduct(id), "Preto", "P", quantity) :
     id \in {1, 2, 3, 4}, quantity \in 1 .. MaxQty}

\* The carts of at most two lines addToCart builds from these products.
PricedCarts ==
  {<<>>} \cup {<<a>> : a \in PricedLines}
         \cup {pair \in {<<a, b>> : a \in PricedLines, b \in PricedLines} :
                 pair[1].id # pair[2].id}

InitPricing ==
  \E storedCart \in PricedCarts, loadedCoupons \in {INITIAL_COUPONS, LoadedCoupons} :
    InitState(LoadedProducts, storedCart, loadedCoupons)

NextPricing ==
  \/ \E couponCode \in TypedCodes : HandleApplyCoupon(couponCode)
  \/ RenderCart

SpecPricing == InitPricing /\ [][NextPricing]_vars

\* ------------------------------------------------------------------ product form specification

\* A products table with a row written before sizes were checked: product 2
\* holds a variant of a size it does not offer.
StaleProducts ==
  [LoadedProducts EXCEPT
     ![2].stock = << [color |-> "Vinho", size |-> "G", quantity |-> 1],
                     [color |-> "Vinho", size |-> "P", quantity |-> 0] >>]

\* What the operator types in a quantity input of the product form.
FormQtyInputs == {"2"}

InitForm == \E catalog \in {LoadedProducts, StaleProducts} : InitWith(catalog, <<>>)

NextForm ==
  \/ \E i \in 1 .. Len(products) : StartEdit(i)
  \/ CancelEdit
  \/ \E name \in {"Preto", "Vinho"} : ToggleColor(name)
  \/ \E color \in {"Preto", "Vinho"}, size \in {"P", "M"}, value \in FormQtyInputs :
       SetStockQuantity(color, size, value)
  \/ HandleSaveProduct
  \/ \E k \in 1 .. Len(dbPending), outcome \in {"ok", "error"} :
       ProductUpdateReturns(k, outcome)

SpecForm == InitForm /\ [][NextForm]_vars

\* ------------------------------------------------------------------ stock list specification

\* The product form and the checkout of a cart of one line, submitted once,
\* every call of it succeeding; the products table holds the stale row.
InitVariants ==
  InitWith(StaleProducts, <<CartItem(LoadedProducts[1], "Preto", "P", 1)>>)

NextVariants ==
  \/ NextForm
  \/ OpenCheckout
  \/ \E value \in NameInputs \cup AddressInputs \cup PaymentMethods :
       SetCheckoutField(value)
  \/ CheckoutContinue
  \/ CheckoutSubmitWithin(1)
  \/ \E r \in 1 .. Len(runs) : SaleInsertReturns(r, "ok")
  \/ \E r \in 1 .. Len(runs) : SalesRefreshReturns(r, "data")
  \/ \E r \in 1 .. Len(runs) : StockUpdateReturns(r, "ok")

SpecVariants == InitVariants /\ [][NextVariants]_vars

\* ------------------------------------------------------------------ two clients specification

\* The other device is opening the page.
PeerArrives == [NoPeer EXCEPT !.pc = "loading"]

\* A shop of one product, open on two devices, both carts empty.
InitTwoClients ==
  InitSite(SubSeq(LoadedProducts, 1, 1), <<>>, INITIAL_COUPONS, <<>>, 0,
           PeerArrives)

\* Each device fills its cart and checks out once, every call succeeding;
\* this device can reload the page.
NextTwoClients ==
  \/ \E i \in 1 .. Len(products) : SelectProduct(i)
  \/ \E size \in {"P", "M"} : AddToCart("Preto", size)
  \/ CloseProduct
  \/ OpenCheckout
  \/ \E value \in NameInputs \cup AddressInputs \cup PaymentMethods :
       SetCheckoutField(value)
  \/ CheckoutContinue
  \/ CheckoutSubmitWithin(1)
  \/ \E r \in 1 .. Len(runs) : SaleInsertReturns(r, "ok")
  \/ \E r \in 1 .. Len(runs) : SalesRefreshReturns(r, "data")
  \/ \E r \in 1 .. Len(runs) : StockUpdateReturns(r, "ok")
  \/ Reload
  \/ PeerLoads
  \/ \E i \in 1 .. Len(peer.products), size \in {"P", "M"} :
       PeerAddToCart(i, "Preto", size)
  \/ PeerSubmit
  \/ PeerCallReturns

SpecTwoClients == InitTwoClients /\ [][NextTwoClients]_vars

\* ------------------------------------------------------------------ orders specification

\* What the operator types in the price of the product form.
PriceInputs == {"80"}

\* One unit of product 1 waits in the cart of a shop of one product.
InitOrders ==
  InitWith(SubSeq(LoadedProducts, 1, 1),
           <<CartItem(LoadedProducts[1], "Preto", "P", 1)>>)

\* Two checkouts, every call of them succeeding; between
\* them the shopper fills the cart again and the operator edits the price of
\* the product or deletes it.
NextOrders ==
  \/ \E i \in 1 .. Len(products) : SelectProduct(i)
  \/ AddToCart("Preto", "P")
  \/ CloseProduct
  \/ OpenCheckout
  \/ \E value \in NameInputs \cup AddressInputs \cup PaymentMethods :
       SetCheckoutField(value)
  \/ CheckoutContinue
  \/ CheckoutSubmitWithin(2)
  \/ \E r \in 1 .. Len(runs) : SaleInsertReturns(r, "ok")
  \/ \E r \in 1 .. Len(runs) : SalesRefreshReturns(r, "data")
  \/ \E r \in 1 .. Len(runs) : StockUpdateReturns(r, "ok")
  \/ \E i \in 1 .. Len(products) : StartEdit(i)
  \/ \E value \in PriceInputs : SetPrice(value)
  \/ HandleSaveProduct
  \/ \E k \in 1 .. Len(dbPending) : ProductUpdateReturns(k, "ok")
  \/ \E i \in 1 .. Len(products) : DeleteProduct(i)
  \/ \E k \in 1 .. Len(dbPending) : ProductDeleteReturns(k, "ok")

SpecOrders == InitOrders /\ [][NextOrders]_vars

\* ------------------------------------------------------------------ coupons specification

\* What the operator types in the code and in the discount of a new coupon.
CodeInputs == {"", " ", " vip20 ", "BELLE10"}

DiscountInputs == {"", "10", "100", "150", "-5"}

NextCoupons ==
  \/ \E codeValue \in CodeInputs, discValue \in DiscountInputs :
       CreateCoupon(codeValue, discValue)
  \/ \E i \in 1 .. Len(coupons) : DeleteCoupon(i)
  \/ \E k \in 1 .. Len(couponCalls), outcome \in {"ok", "error"} :
       CouponCallReturns(k, outcome)

SpecCoupons == InitWith(LoadedProducts, <<>>) /\ [][NextCoupons]_vars

\* ------------------------------------------------------------------ catalog specification

\* What the operator types in the name input.
ProductNames == {"", "Body"}

\* The operator at the products tab, every call on the products table
\* succeeding.
NextCatalog ==
  \/ StartNew
  \/ \E i \in 1 .. Len(products) : StartEdit(i)
  \/ CancelEdit
  \/ \E value \in ProductNames : SetName(value)
  \/ HandleSaveProduct
  \/ \E i \in 1 .. Len(products) : DeleteProduct(i)
  \/ \E i \in 1 .. Len(products) : ToggleProductVisibility(i)
  \/ \E k \in 1 .. Len(dbPending) : ProductUpdateReturns(k, "ok")
  \/ \E k \in 1 .. Len(dbPending) : ProductInsertReturns(k, "ok")
  \/ \E k \in 1 .. Len(dbPending) : ProductDeleteReturns(k, "ok")
  \/ \E k \in 1 .. Len(dbPending) : VisibilityUpdateReturns(k, "ok")

\* A products table of one row.
InitCatalog == InitWith(SubSeq(LoadedProducts, 1, 1), <<>>)

SpecCatalog == InitCatalog /\ [][NextCatalog]_vars

\* ------------------------------------------------------------------ reload specification

\* The shop floor, with reloads of the page.
NextReload == Next \/ Reload

SpecReload == Init /\ [][NextReload]_vars

\* ------------------------------------------------------------------ sales panel specification

\* The rows of the sales table: two customers, three product names (one of
\* them a number, "7"), orders of one and of two lines, made around midnight
\* and at noon (UTC).
RecordedSales ==
  { [id |-> 1, created_at |-> 26, customer_name |-> <<"B", "i", "a">>,
     items |-> << [name |-> <<"7">>, quantity |-> 2] >>,
     total |-> 90],
    [id |-> 2, created_at |-> 49, customer_name |-> <<"A", "n", "a">>,
     items |-> << [name |-> <<"R", "e", "n">>, quantity |-> 2] >>,
     total |-> 180],
    [id |-> 3, created_at |-> 60, customer_name |-> <<"B", "i", "a">>,
     items |-> << [name |-> <<"R", "e", "n">>, quantity |-> 2],
                  [name |-> <<"B", "o", "d">>, quantity |-> 3] >>,
     total |-> 230],
    [id |-> 4, created_at |-> 95, customer_name |-> <<"A", "n", "a">>,
     items |-> << [name |-> <<"B", "o", "d">>, quantity |-> 2] >>,
     total |-> 50] }

\* What the select of the sales returns: at most MaxOrders rows, the most
\* recent first.
SalesLogs ==
  {log \in UNION {[1 .. n -> RecordedSales] : n \in 0 .. MaxOrders} :
     \A i \in 1 .. (Len(log) - 1) : log[i].created_at > log[i + 1].created_at}

\* getTimezoneOffset() in hours: UTC-3, UTC and UTC+2.
TimezoneOffsets == {3, 0, -2}

\* The days a date input is set to, and the texts typed in the search field.
FilterDays == {1, 2, 3}

SearchTexts == {<<>>, <<"a", "n">>, <<"N">>, <<"o", "d">>, <<"z">>}

InitSales ==
  \E loadedSales \in SalesLogs, offset \in TimezoneOffsets :
    InitApp(LoadedProducts, <<>>, INITIAL_COUPONS, loadedSales, offset)

NextSales ==
  \/ \E value \in {None} \cup {Some(day) : day \in FilterDays} :
       SetSalesFilterStart(value)
  \/ \E value \in {None} \cup {Some(day) : day \in FilterDays} :
       SetSalesFilterEnd(value)
  \/ \E value \in SearchTexts : SetSalesFilterSearch(value)
  \/ \E today \in FilterDays : SetFilterToday(today)
  \/ ClearFilters
  \/ RenderSales

SpecSales == InitSales /\ [][NextSales]_vars

\* ------------------------------------------------------------------ cart claims

\* The step is a call of addToCart; its arguments are in lastOp'.
IsAddToCart == lastOp'.op = "addToCart"

\* The variants of (color, size) in a stock list, and the lines of
\* (id, color, size) in a cart.
VariantsOf(stock, color, size) ==
  {k \in 1 .. Len(stock) : stock[k].color = color /\ stock[k].size = size}

LinesOf(lines, id, color, size) ==
  {k \in 1 .. Len(lines) :
     /\ lines[k].id = id
     /\ lines[k].selectedColor = color
     /\ lines[k].selectedSize = size}

Lowest(S) == CHOOSE k \in S : \A m \in S : k <= m

\* The quantity a stock list holds for a variant, 0 for a variant it lacks.
AvailableQuantity(stock, color, size) ==
  LET at == VariantsOf(stock, color, size)
  IN IF at = {} THEN 0 ELSE stock[Lowest(at)].quantity

\* The quantity a cart holds for a key, 0 for a key it lacks.
QuantityInCart(lines, id, color, size) ==
  LET at == LinesOf(lines, id, color, size)
  IN IF at = {} THEN 0 ELSE lines[Lowest(at)].quantity

\* The stock of the variant in the product addToCart is called with.
StockAtCall ==
  AvailableQuantity(selectedProduct[1].stock, lastOp'.color, lastOp'.size)

InCartBefore == QuantityInCart(cart, lastOp'.id, lastOp'.color, lastOp'.size)
InCartAfter == QuantityInCart(cart', lastOp'.id, lastOp'.color, lastOp'.size)

\* C1: a successful addToCart(product, color, size) never leaves the line of
\* (product.id, color, size) with a quantity above the quantity the stock list
\* of product holds for (color, size) at the call, 0 when the list lacks it.
C1_AddWithinStock ==
  [][(IsAddToCart /\ lastOp'.ok) => InCartAfter <= StockAtCall]_vars

\* An accepted add has brought a line up to the whole stock of its variant.
C1_Witness ==
  /\ lastOp.op = "addToCart" /\ lastOp.ok
  /\ QuantityInCart(cart, 1, "Preto", "P") = MaxQty
  /\ AvailableQuantity(products[1].stock, "Preto", "P") = MaxQty
  /\ lastOp.id = 1 /\ lastOp.size = "P"

\* C6: when the quantity in the cart for (product id, color, size) plus 1
\* exceeds the variant's stock (a variant with quantity 0 or missing
\* included), addToCart leaves the cart as it was and changes no stock, in
\* the catalog or in the products table.
C6_RefusedAddChangesNothing ==
  [][(IsAddToCart /\ InCartBefore + 1 > StockAtCall)
       => (~lastOp'.ok /\ cart' = cart /\ products' = products
           /\ dbProducts' = dbProducts)]_vars

\* An add of the variant missing from the stock list of product 2 was refused
\* on a cart that holds a line.
C6_Witness ==
  /\ lastOp.op = "addToCart" /\ ~lastOp.ok
  /\ lastOp.id = 2 /\ lastOp.size = "M"
  /\ cart # <<>>

NoDuplicateLines ==
  \A i, j \in 1 .. Len(cart) :
    i \in LinesOf(cart, cart[j].id, cart[j].selectedColor, cart[j].selectedSize)
      => i = j

\* An accepted add of a key the cart holds adds 1 to that line and no line;
\* an accepted add of a new key appends a line with quantity 1; the other
\* lines stay.
AddMergesOrAppends ==
  (IsAddToCart /\ lastOp'.ok) =>
    LET at == LinesOf(cart, lastOp'.id, lastOp'.color, lastOp'.size)
    IN IF at # {}
       THEN /\ Len(cart') = Len(cart)
            /\ \A k \in 1 .. Len(cart) :
                 cart'[k] = IF k \in at
                            THEN [cart[k] EXCEPT !.quantity = @ + 1]
                            ELSE cart[k]
       ELSE /\ Len(cart') = Len(cart) + 1
            /\ SubSeq(cart', 1, Len(cart)) = cart
            /\ Len(cart') \in LinesOf(cart', lastOp'.id, lastOp'.color, lastOp'.size)
            /\ cart'[Len(cart')].quantity = 1

\* C7: from an empty cart, no two lines ever share (product id, color, size);
\* adding a key of the cart adds 1 to its line, adding a new key appends a
\* line with quantity 1.
C7_LinesMerged == []NoDuplicateLines /\ [][AddMergesOrAppends]_vars

\* An add has merged into the first of two lines.
C7_Witness ==
  /\ lastOp.op = "addToCart" /\ lastOp.ok
  /\ Len(cart) = 2
  /\ cart[1].quantity = 2
  /\ 1 \in LinesOf(cart, lastOp.id, lastOp.color, lastOp.size)

\* ------------------------------------------------------------------ checkout claims

\* The messages window.open was given for submit r, and whether the sales
\* table holds the order of submit r.
Notified(r) == Cardinality({k \in 1 .. Len(whatsapp) : whatsapp[k].run = r})
Recorded(r) == \E k \in 1 .. Len(dbSales) : dbSales[k].run = r

\* The stock list of product id in a catalog, empty when the catalog lacks it.
StockIn(catalog, id) ==
  LET at == {k \in 1 .. Len(catalog) : catalog[k].id = id}
  IN IF at = {} THEN <<>> ELSE catalog[Lowest(at)].stock

\* C2: when a final submit has returned and every backend call of it
\* succeeded, the variant of every line of the submitted cart holds
\* max(0, quantity at the submit - line quantity), in the catalog and in the
\* products table, also with two lines of one product.
C2_EveryLineDecremented ==
  (lastOp.op = "checkoutEnd" /\ ~lastOp.failed) =>
    \A k \in 1 .. Len(lastOp.cart) :
      LET line == lastOp.cart[k]
          previous == AvailableQuantity(StockIn(lastOp.before, line.id),
                                        line.selectedColor, line.selectedSize)
          expected == IF previous - line.quantity > 0
                      THEN previous - line.quantity ELSE 0
      IN /\ AvailableQuantity(StockIn(products, line.id),
                              line.selectedColor, line.selectedSize) = expected
         /\ AvailableQuantity(StockIn(dbProducts, line.id),
                              line.selectedColor, line.selectedSize) = expected

\* C3: a final submit whose order was not recorded (the insert returned an
\* error or threw) has, once returned, handed window.open one message, and
\* its return leaves the cart empty.
C3_FailedRecordingStillNotifies ==
  \A r \in 1 .. Len(runs) :
    (runs[r].pc = "done" /\ ~Recorded(r)) =>
      /\ Notified(r) = 1
      /\ (lastOp.op = "checkoutEnd" /\ lastOp.run = r) => cart = <<>>

\* A submit of a cart of two lines has returned without its order recorded.
C3_Witness ==
  /\ lastOp.op = "checkoutEnd"
  /\ Len(lastOp.cart) = 2
  /\ ~Recorded(lastOp.run)
  /\ Notified(lastOp.run) = 1
  /\ cart = <<>>

\* C4: the notification is not gated on a backend call: whenever the insert
\* of the order, or the select that follows it, has not returned, the message
\* of that submit has been handed to window.open.
C4_NotificationNotGated ==
  \A r \in 1 .. Len(runs) :
    runs[r].pc \in {"insert", "refresh"} => Notified(r) >= 1

StepInRange == checkoutStep \in {0, 1, 2}

StepMoves ==
  /\ checkoutStep' # checkoutStep =>
       \/ lastOp'.op = "checkoutContinue" /\ checkoutStep' = checkoutStep + 1
       \/ lastOp'.op = "checkoutBack" /\ checkoutStep' = checkoutStep - 1
       \/ lastOp'.op = "checkoutEnd" /\ checkoutStep' = 0
  /\ lastOp'.op = "checkoutContinue" =>
       checkoutStep < 2 /\ checkoutStep' = checkoutStep + 1
  /\ lastOp'.op = "checkoutSubmit" => checkoutStep = 2 /\ checkoutStep' = 2
  /\ lastOp'.op = "checkoutBack" =>
       /\ checkoutStep' = checkoutStep - 1
       /\ checkoutData' = checkoutData

\* C8: the step is always 0 (Identification), 1 (Delivery) or 2 (Payment); a
\* forward submit before Payment moves it up by one, the order is submitted
\* from Payment only, "Voltar" moves it down by one and keeps the name, the
\* address and the payment; the step changes in no other way but the reset
\* that ends a submitted checkout.
C8_StepsInOrder == []StepInRange /\ [][StepMoves]_vars

\* "Voltar" from Payment: the step is Delivery, the name and the address are
\* still there.
C8_Witness ==
  /\ lastOp.op = "checkoutBack"
  /\ checkoutStep = 1
  /\ checkoutData = [name |-> "Ana", address |-> "Rua 1", payment |-> "Pix"]

\* C9: cancelling the checkout, at any step, leaves the cart lines and the
\* applied coupon as they were.
C9_CancelKeepsCartAndCoupon ==
  [][lastOp'.op = "cancelCheckout"
       => (cart' = cart /\ appliedCoupon' = appliedCoupon)]_vars

\* A cancel at Payment, before any submit, of a cart with a coupon applied.
C9_Witness ==
  /\ lastOp.op = "cancelCheckout"
  /\ checkoutStep = 2
  /\ runs = <<>>
  /\ cart # <<>>
  /\ appliedCoupon # None

\* C10 as claimed: a checkout opened again (after a cancel: the checkout is
\* closed by a cancel or by the end of a submit, which resets the form) starts
\* at Identification with an empty name, address and payment.
C10_ReopenStartsEmpty ==
  lastOp.op = "openCheckout" =>
    (checkoutStep = 0 /\ checkoutData = EmptyCheckoutData)

\* C10 as amended: a cancel only closes the checkout and opening it again
\* only opens it: neither changes the step, the name, the address or the
\* payment, so the checkout opens where it was cancelled.
C10_CancelKeepsForm ==
  [][lastOp'.op \in {"cancelCheckout", "openCheckout"}
       => (checkoutStep' = checkoutStep /\ checkoutData' = checkoutData)]_vars

\* The checkout was opened again at Payment with the form filled.
C10_Witness ==
  /\ lastOp.op = "openCheckout"
  /\ runs = <<>>
  /\ checkoutStep = 2
  /\ checkoutData = [name |-> "Ana", address |-> "Rua 1", payment |-> "Pix"]

\* ------------------------------------------------------------------ stock claims

\* C5: every quantity of every stock list is >= 0, in the catalog and in the
\* products table.
C5_QuantitiesNeverNegative ==
  \A catalog \in {products, dbProducts} :
    \A i \in 1 .. Len(catalog) :
      \A k \in 1 .. Len(catalog[i].stock) : catalog[i].stock[k].quantity >= 0

\* ------------------------------------------------------------------ end of checkout

\* C11: when a final submit has returned, the cart is empty, no coupon is
\* applied, the name, the address and the payment of the form are empty and
\* the step is 0 (Identification).
C11_SubmitResetsEverything ==
  lastOp.op = "checkoutEnd" =>
    /\ cart = <<>>
    /\ appliedCoupon = None
    /\ checkoutData = EmptyCheckoutData
    /\ checkoutStep = 0

\* A submit of a cart of two lines with a coupon applied has returned.
C11_Witness ==
  /\ lastOp.op = "checkoutEnd"
  /\ Len(lastOp.cart) = 2
  /\ \E k \in 1 .. Len(whatsapp) :
       whatsapp[k].run = lastOp.run /\ whatsapp[k].coupon # None
  /\ cart = <<>>
  /\ appliedCoupon = None

\* ------------------------------------------------------------------ pricing claims

\* The price of a line as the pricing rule gives it.
RulePrice(line) ==
  IF line.isPromotion = TRUE /\ line.promoPrice > 0
  THEN line.promoPrice ELSE line.price

RECURSIVE SumOver(_, _)
SumOver(lines, S) ==
  IF S = {} THEN 0
  ELSE LET k == CHOOSE k \in S : TRUE
       IN RulePrice(lines[k]) * lines[k].quantity + SumOver(lines, S \ {k})

RuleSubtotal == SumOver(cart, 1 .. Len(cart))

\* C12: the total shown for a cart is its subtotal (the sum over the lines of
\* effective price x quantity) when no coupon is applied, and the subtotal
\* x (1 - discount/100) when one is: total x 100 = subtotal x (100 - discount),
\* the discount taken once on the whole subtotal.
C12_TotalIsDiscountedSubtotal ==
  lastOp.op = "renderCart" =>
    /\ lastOp.cartSubtotal = RuleSubtotal
    /\ appliedCoupon = None => lastOp.cartTotal = RuleSubtotal * 100
    /\ appliedCoupon # None =>
         lastOp.cartTotal = RuleSubtotal * (100 - appliedCoupon[1].discount)

\* Price 100, quantity 2, discount 10: subtotal 200, total 180.
C12_Witness ==
  /\ lastOp.op = "renderCart"
  /\ Len(cart) = 1
  /\ cart[1].price = 100 /\ cart[1].quantity = 2 /\ ~cart[1].isPromotion
  /\ appliedCoupon # None /\ appliedCoupon[1].discount = 10
  /\ lastOp.cartSubtotal = 200
  /\ lastOp.cartTotal = 180 * 100

\* Letter case folded, for the codes typed and stored.
Folded(code) ==
  CASE code \in {"BELLE10", "Belle10", "belle10"} -> "belle10"
    [] code \in {"VIP20", "Vip20", "vip20"} -> "vip20"
    [] code \in {"BELLE", "belle"} -> "belle"
    [] code \in {"NOPE", "nope"} -> "nope"

\* The stored coupons whose code is the typed one, letter case apart.
Matching(code) ==
  {k \in 1 .. Len(coupons) : Folded(coupons[k].code) = Folded(code)}

\* C13: applying a code that matches no stored coupon leaves no coupon
\* applied, also when one was applied before, and leaves the cart lines as
\* they were.
C13_UnknownCodeUnapplies ==
  [][(lastOp'.op = "applyCoupon" /\ Matching(lastOp'.code) = {})
       => (appliedCoupon' = None /\ cart' = cart)]_vars

\* An unknown code was typed while a coupon was applied to a cart with lines.
C13_Witness ==
  /\ lastOp.op = "applyCoupon"
  /\ lastOp.code = "nope"
  /\ lastOp.previous # None
  /\ appliedCoupon = None
  /\ cart # <<>>

\* C14: typing the code of a stored coupon in upper, lower or mixed case
\* applies that coupon, in place of the coupon applied before if there was
\* one: the applied coupon is always none or one of the stored coupons.
C14_AnyCaseApplies ==
  /\ [](appliedCoupon = None \/ appliedCoupon[1] \in Range(coupons))
  /\ [][\A k \in 1 .. Len(coupons) :
          (lastOp'.op = "applyCoupon" /\ k \in Matching(lastOp'.code))
            => appliedCoupon' = Some(coupons[k])]_vars

\* A second code, typed in mixed case, replaced the coupon applied before.
C14_Witness ==
  /\ lastOp.op = "applyCoupon"
  /\ lastOp.code = "Vip20"
  /\ lastOp.previous = Some([code |-> "BELLE10", discount |-> 10])
  /\ appliedCoupon = Some([code |-> "VIP20", discount |-> 20])

\* ------------------------------------------------------------------ product form claims

\* A save that went through: handleSaveProduct got past its name test.
IsSave == lastOp'.op = "saveProduct" /\ lastOp'.ok

\* The product the form holds, and the stock of that product in the catalog
\* after the step.
Edited == editingProduct[1]
SavedStock == StockIn(products', Edited.id)

\* C15: saving again what a save produced, with the same colors and sizes,
\* gives the same stock list: the reconciliation of the saved product is the
\* saved stock list, variant for variant in the same order.
C15_ReconcileIdempotent ==
  [][IsSave => FinalStock([Edited EXCEPT !.stock = SavedStock]) = SavedStock]_vars

\* A save that both dropped a variant and added two.
C15_Witness ==
  /\ lastOp.op = "saveProduct" /\ lastOp.ok
  /\ products[2].colors = <<"Vinho", "Preto">>
  /\ Len(products[2].stock) = 4
  /\ \A k \in 1 .. 4 : products[2].stock[k].size # "G"

\* C16: the stock list of a saved product with selected colors C and sizes S
\* has no variant of a color outside C or a size outside S, has a variant for
\* every pair of C x S, with the quantity the form held for the pairs it had
\* and 0 for the others.
C16_ReconcileMatchesSelection ==
  [][IsSave =>
       LET C == Range(Edited.colors)
           S == Range(Edited.sizes)
       IN /\ \A k \in 1 .. Len(SavedStock) :
               SavedStock[k].color \in C /\ SavedStock[k].size \in S
          /\ \A c \in C, z \in S :
               /\ VariantsOf(SavedStock, c, z) # {}
               /\ AvailableQuantity(SavedStock, c, z) =
                    IF VariantsOf(Edited.stock, c, z) # {}
                    THEN AvailableQuantity(Edited.stock, c, z)
                    ELSE 0]_vars

\* Product 1 saved with its color replaced: the variants of the old color
\* are gone, those of the new color are there, one of them with the quantity
\* typed in the form.
C16_Witness ==
  /\ lastOp.op = "saveProduct" /\ lastOp.ok
  /\ products[1].colors = <<"Vinho">>
  /\ VariantsOf(products[1].stock, "Preto", "P") = {}
  /\ AvailableQuantity(products[1].stock, "Vinho", "P") = 2
  /\ VariantsOf(products[1].stock, "Vinho", "M") # {}
  /\ AvailableQuantity(products[1].stock, "Vinho", "M") = 0

\* ------------------------------------------------------------------ cart removal claims

\* C17: removeFromCart(index) takes the line at that position out of the
\* cart, leaves the lines before it and after it as they were, in their
\* order, and changes no stock quantity in the catalog or the products table.
C17_RemoveTakesOneLine ==
  [][lastOp'.op = "removeFromCart" =>
       LET index == lastOp'.index
       IN /\ Len(cart') = Len(cart) - 1
          /\ \A k \in 1 .. Len(cart') :
               cart'[k] = IF k < index THEN cart[k] ELSE cart[k + 1]
          /\ products' = products
          /\ dbProducts' = dbProducts]_vars

\* The first of two lines was removed: the second line is left, with its
\* two units, and the catalog still has stock.
C17_Witness ==
  /\ lastOp.op = "removeFromCart"
  /\ lastOp.index = 1
  /\ Len(cart) = 1
  /\ cart[1].id = 1 /\ cart[1].selectedSize = "P" /\ cart[1].quantity = 2
  /\ AvailableQuantity(StockIn(products, 1), "Preto", "M") >= 1

\* ------------------------------------------------------------------ sales panel claims

\* The state shows the sales tab as rendered; filteredSales and salesInsights
\* are in lastOp.
IsRenderSales == lastOp.op = "renderSales"

\* The calendar day of an instant on the client's clock.
LocalDay(t) == (t - timezoneOffset) \div 24

\* Inclusive range of calendar days, for the bounds that are set.
InDateRange(order) ==
  /\ salesFilterStart # None => LocalDay(order.created_at) >= salesFilterStart[1]
  /\ salesFilterEnd # None => LocalDay(order.created_at) =< salesFilterEnd[1]

\* Two characters that differ at most by case.
SameLetter(a, b) ==
  \/ a = b
  \/ \E pair \in {<<"A", "a">>, <<"B", "b">>, <<"D", "d">>, <<"N", "n">>, <<"R", "r">>} :
       {a, b} = {pair[1], pair[2]}

\* term occurs in text, whatever the case of the letters.
Occurs(term, text) ==
  \E at \in 1 .. (Len(text) - Len(term) + 1) :
    \A j \in 1 .. Len(term) : SameLetter(text[at + j - 1], term[j])

MatchesSearch(order) ==
  salesFilterSearch # <<>> =>
    \/ Occurs(salesFilterSearch, order.customer_name)
    \/ \E item \in Range(order.items) : Occurs(salesFilterSearch, item.name)

PassesFilter(order) == InDateRange(order) /\ MatchesSearch(order)

\* C18: the orders shown are exactly the orders within the inclusive range of
\* days (for the bounds that are set) that match the search text (when there
\* is one) in the customer name or in an item name, whatever the case.
C18_FilterIsRangeAndSearch ==
  IsRenderSales => lastOp.filteredSales = SelectSeq(sales, PassesFilter)

\* C18 with the client's clock at UTC.
C18_AtUtc == timezoneOffset = 0 => C18_FilterIsRangeAndSearch

\* The sum of the totals of a list of orders.
RECURSIVE SumOfTotals(_)
SumOfTotals(orders) ==
  IF orders = <<>> THEN 0 ELSE Head(orders).total + SumOfTotals(Tail(orders))

\* fraction is the exact quotient a / b.
IsQuotient(fraction, a, b) ==
  fraction.den # 0 /\ fraction.num * b = a * fraction.den

\* C19: over the orders shown, totalRevenue is the sum of their totals,
\* totalOrders their number, and averageTicket the quotient of the two, or 0
\* when no order is shown.
C19_InsightsOverFiltered ==
  IsRenderSales =>
    LET shown == lastOp.filteredSales
        insights == lastOp.salesInsights
    IN /\ insights.totalRevenue = SumOfTotals(shown)
       /\ insights.totalOrders = Len(shown)
       /\ IF Len(shown) > 0
          THEN IsQuotient(insights.averageTicket, SumOfTotals(shown), Len(shown))
          ELSE IsQuotient(insights.averageTicket, 0, 1)

\* Two of three orders shown by a search: 180 + 50 over 2 orders.
C19_Witness ==
  /\ IsRenderSales
  /\ salesFilterSearch # <<>>
  /\ Len(lastOp.filteredSales) = 2
  /\ lastOp.salesInsights.totalRevenue = 230
  /\ IsQuotient(lastOp.salesInsights.averageTicket, 115, 1)

\* The lines of a list of orders, in the order they are met.
RECURSIVE LinesMet(_)
LinesMet(orders) ==
  IF orders = <<>> THEN <<>> ELSE Head(orders).items \o LinesMet(Tail(orders))

\* The quantity of a name summed over a list of lines.
RECURSIVE SoldOf(_, _)
SoldOf(name, lines) ==
  IF lines = <<>> THEN 0
  ELSE (IF Head(lines).name = name THEN Head(lines).quantity ELSE 0)
         + SoldOf(name, Tail(lines))

\* The position of the first line of a name.
FirstMet(name, lines) ==
  CHOOSE k \in 1 .. Len(lines) :
    lines[k].name = name /\ \A j \in 1 .. (k - 1) : lines[j].name # name

\* C20: the best seller shown is the name with the highest quantity summed
\* over the lines of the orders shown, the first met of the names that tie for
\* it, and the sentinel with count 0 when the orders shown have no line.
C20_BestSellerBySum ==
  IsRenderSales =>
    LET lines == LinesMet(lastOp.filteredSales)
        names == {lines[k].name : k \in 1 .. Len(lines)}
        best == lastOp.salesInsights.bestSellingProduct
        count == lastOp.salesInsights.bestSellingCount
    IN IF names = {}
       THEN best = <<"N", "/", "A">> /\ count = 0
       ELSE /\ best \in names
            /\ count = SoldOf(best, lines)
            /\ \A name \in names :
                 /\ SoldOf(name, lines) =< count
                 /\ SoldOf(name, lines) = count
                      => FirstMet(best, lines) =< FirstMet(name, lines)

\* C20 for orders without a product named by a number.
C20_NamesNotNumbers ==
  (\A k \in 1 .. Len(sales) : \A item \in Range(sales[k].items) :
     ~IsArrayIndex(item.name))
    => C20_BestSellerBySum

\* A name sold 2 + 2 in two orders beats a name sold 3 in one.
C20_SumBeatsSingleOrder ==
  /\ IsRenderSales
  /\ Len(lastOp.filteredSales) = 2
  /\ lastOp.salesInsights.bestSellingProduct = <<"R", "e", "n">>
  /\ lastOp.salesInsights.bestSellingCount = 4

\* No order shown: the average is 0.
C19_WitnessNone ==
  /\ IsRenderSales
  /\ sales # <<>>
  /\ lastOp.filteredSales = <<>>
  /\ lastOp.salesInsights.averageTicket.num = 0

\* C25: with dates set, an order is shown exactly when its calendar day is
\* within the start and end days, both included, whatever the offset of the
\* client's clock.
C25_DateRangeInclusive ==
  (IsRenderSales /\ salesFilterSearch = <<>>) =>
    \A k \in 1 .. Len(sales) :
      (sales[k] \in Range(lastOp.filteredSales)) <=> InDateRange(sales[k])

\* C25 without an end date: the start day alone is handled as stated.
C25_StartOnly == salesFilterEnd = None => C25_DateRangeInclusive

\* ------------------------------------------------------------------ cart store claims

\* What is stored for line k of the cart under a key.
StoredValue(k, key) ==
  LET members == belleCart[1].items[k].members
      at == CHOOSE j \in 1 .. Len(members) : members[j].key = key
  IN members[at].value.value

\* The store holds the lines of the cart: as many, with the same keys and
\* quantities, in the same order.
CartIsStored ==
  /\ belleCart # None
  /\ Len(belleCart[1].items) = Len(cart)
  /\ \A k \in 1 .. Len(cart) :
       /\ StoredValue(k, "id") = cart[k].id
       /\ StoredValue(k, "selectedColor") = cart[k].selectedColor
       /\ StoredValue(k, "selectedSize") = cart[k].selectedSize
       /\ StoredValue(k, "quantity") = cart[k].quantity

\* A reload leaves the lines of the cart as they were.
ReloadRestoresCart ==
  lastOp'.op = "reload" =>
    /\ Len(cart') = Len(cart)
    /\ \A k \in 1 .. Len(cart) :
         /\ cart'[k].id = cart[k].id
         /\ cart'[k].selectedColor = cart[k].selectedColor
         /\ cart'[k].selectedSize = cart[k].selectedSize
         /\ cart'[k].quantity = cart[k].quantity

\* C21: after every change of the cart the local store holds its lines, and
\* a reload on the same device gives back the cart as it was: same keys, same
\* quantities, same order.
C21_CartSurvivesReload == []CartIsStored /\ [][ReloadRestoresCart]_vars

\* A cart of two lines, one of them of two units, has been reloaded.
C21_Witness ==
  /\ lastOp.op = "reload"
  /\ Len(cart) = 2
  /\ cart[1].quantity = 2
  /\ belleCart = Some(JsonStringify(cart))

\* ------------------------------------------------------------------ catalog claims

\* The step is a save of a product form without a name.
IsNamelessSave ==
  /\ lastOp'.op = "saveProduct"
  /\ editingProduct # None
  /\ editingProduct[1].name = ""

\* C22: a save of a product without a name leaves the catalog in memory and
\* the products table as they were and sends no insert and no update.
C22_NamelessSaveChangesNothing ==
  [][IsNamelessSave =>
       (products' = products /\ dbProducts' = dbProducts /\ dbPending' = dbPending)]_vars

\* A new product was saved without a name: the form is still open, nothing
\* was sent.
C22_Witness ==
  /\ lastOp.op = "saveProduct"
  /\ ~lastOp.ok
  /\ editingProduct = Some(EmptyForm)
  /\ dbPending = <<>>
  /\ products = dbProducts

\* The products of a catalog as their ids and stock quantities.
Holdings(catalog) ==
  {[id |-> catalog[k].id, stock |-> catalog[k].stock] : k \in 1 .. Len(catalog)}

\* C27: once every call on the products table has returned, the catalog in
\* memory and the products table hold the same products with the same stock.
C27_CatalogsAgree == dbPending = <<>> => Holdings(products) = Holdings(dbProducts)

\* ------------------------------------------------------------------ submit claims

\* The orders of the sales table and the messages handed to window.open that
\* hold a given cart.
OrdersOf(lines) == {k \in 1 .. Len(dbSales) : dbSales[k].items = lines}
MessagesOf(lines) == {k \in 1 .. Len(whatsapp) : whatsapp[k].items = lines}

\* C23: the one cart that is checked out gives at most one order and one
\* notification, and its line takes its quantity from the stock once, also
\* when the final submit fires again while the first is waiting.
C23_OneOrderPerCheckout ==
  LET line == CartItem(LoadedProducts[1], "Preto", "P", 1)
      loaded == AvailableQuantity(LoadedProducts[1].stock, "Preto", "P")
  IN /\ Cardinality(OrdersOf(<<line>>)) =< 1
     /\ Cardinality(MessagesOf(<<line>>)) =< 1
     /\ AvailableQuantity(StockIn(products, 1), "Preto", "P") >= loaded - 1
     /\ AvailableQuantity(StockIn(dbProducts, 1), "Preto", "P") >= loaded - 1

\* C23 for the orders alone.
C23_OneOrder ==
  Cardinality(OrdersOf(<<CartItem(LoadedProducts[1], "Preto", "P", 1)>>)) =< 1

\* C23 for the stock alone.
C23_OneDecrement ==
  AvailableQuantity(StockIn(dbProducts, 1), "Preto", "P")
    >= AvailableQuantity(LoadedProducts[1].stock, "Preto", "P") - 1

\* Submit r returns in this step.
Returns(r) == runs[r].pc # "done" /\ runs'[r].pc = "done"

\* C24: a final submit returns only once the update of the last line of its
\* cart has been sent, whatever became of the updates of the lines before
\* it, and its return leaves the cart empty.
C24_EveryLineAttempted ==
  [][\A r \in 1 .. Len(runs) :
       Returns(r) =>
         /\ runs[r].pc = "stock" /\ runs[r].idx = Len(runs[r].cart)
         /\ cart' = <<>>]_vars

\* ------------------------------------------------------------------ stock list claims

\* A stock list has at most one variant for each pair of color and size.
OneVariantPerPair(stock) ==
  \A j, k \in 1 .. Len(stock) :
    (stock[j].color = stock[k].color /\ stock[j].size = stock[k].size) => j = k

\* C28: every product of the catalog, every row of the products table, the
\* product in the form and every row on its way to the table has at most one
\* variant for each pair of color and size.
C28_OneVariantPerPair ==
  /\ \A i \in 1 .. Len(products) : OneVariantPerPair(products[i].stock)
  /\ \A i \in 1 .. Len(dbProducts) : OneVariantPerPair(dbProducts[i].stock)
  /\ editingProduct # None => OneVariantPerPair(editingProduct[1].stock)
  /\ \A k \in 1 .. Len(dbPending) :
       dbPending[k].call = "update" => OneVariantPerPair(dbPending[k].row.stock)

\* A product saved with a variant typed in the form for a pair its stock list
\* lacked, and with the pairs of a newly selected color, after a checkout
\* has taken a unit of another product.
C28_Witness ==
  /\ lastOp.op = "productUpdated"
  /\ Len(dbProducts[2].stock) = 4
  /\ \E k \in 1 .. Len(dbProducts[2].stock) : dbProducts[2].stock[k].quantity = 2
  /\ AvailableQuantity(StockIn(dbProducts, 1), "Preto", "P") = 1

\* ------------------------------------------------------------------ coupons claims

\* No two coupons of the list have the same code.
UniqueCodes ==
  \A j, k \in 1 .. Len(coupons) : coupons[j].code = coupons[k].code => j = k

\* C29: the coupons the shop applies have distinct codes and discounts from
\* 0 to 100, and so have the rows sent to and held by the coupons table.
C29_CouponsWellFormed ==
  /\ UniqueCodes
  /\ \A k \in 1 .. Len(coupons) : coupons[k].discount \in 0 .. 100
  /\ \A k \in 1 .. Len(dbCoupons) : dbCoupons[k].discount \in 0 .. 100

\* C29 for the codes alone.
C29_UniqueCodes == UniqueCodes

\* ------------------------------------------------------------------ order log claims

\* The total of a cart under a coupon, in hundredths.
RuleTotal(lines, coupon) ==
  SumOver(lines, 1 .. Len(lines))
    * (IF coupon = None THEN 100 ELSE 100 - coupon[1].discount)

\* A submit takes the cart and its total as they are when it is pressed.
SubmitTakesCart ==
  Len(runs') > Len(runs) =>
    /\ runs'[Len(runs')].cart = cart
    /\ runs'[Len(runs')].total = RuleTotal(cart, appliedCoupon)

\* A submit under way keeps what it took.
SubmitKeepsCart ==
  \A r \in 1 .. Len(runs) :
    runs[r].pc # "done" /\ runs'[r].pc # "done" =>
      runs'[r].cart = runs[r].cart /\ runs'[r].total = runs[r].total

\* A new row of the sales table holds what a submit waiting for it took.
RowHoldsSubmittedCart ==
  Len(dbSales') > Len(dbSales) =>
    /\ Len(dbSales') = Len(dbSales) + 1
    /\ \E r \in 1 .. Len(runs) :
         /\ runs[r].pc = "insert"
         /\ dbSales'[Len(dbSales')].run = r
         /\ dbSales'[Len(dbSales')].items = runs[r].cart
         /\ dbSales'[Len(dbSales')].total = runs[r].total

\* The rows of the sales table stay as they are.
RowsStay ==
  /\ Len(dbSales') >= Len(dbSales)
  /\ \A k \in 1 .. Len(dbSales) : dbSales'[k] = dbSales[k]

\* C30: a recorded order holds the lines (price, promotion data, color, size,
\* quantity) and the total of the cart as they were when the order was
\* submitted, and no later step (a price or stock edit, the deletion of the
\* product, a change of the cart, a further checkout) changes a recorded order.
C30_OrdersFrozen ==
  [][SubmitTakesCart /\ SubmitKeepsCart /\ RowHoldsSubmittedCart /\ RowsStay]_vars

\* Two orders are recorded; between them the price of the product was edited
\* in the catalog and saved to the table, and the first order keeps the price
\* it was sold at.
C30_Witness ==
  /\ Len(dbSales) = 2
  /\ dbSales[1].items[1].price = 100
  /\ dbSales[2].items[1].price # 100
  /\ \E j \in 1 .. Len(dbProducts) :
       dbProducts[j].id = dbSales[1].items[1].id /\ dbProducts[j].price # 100

\* An order is recorded and its product is deleted from the table.
C30_WitnessDeleted ==
  /\ Len(dbSales) >= 1
  /\ \A j \in 1 .. Len(dbProducts) : dbProducts[j].id # dbSales[1].items[1].id

\* ------------------------------------------------------------------ two clients claims

\* The units of a variant in the lines of an order.
RECURSIVE UnitsIn(_, _, _, _)
UnitsIn(items, id, color, size) ==
  IF items = <<>> THEN 0
  ELSE (IF Head(items).id = id /\ Head(items).selectedColor = color
           /\ Head(items).selectedSize = size
        THEN Head(items).quantity ELSE 0)
       + UnitsIn(Tail(items), id, color, size)

\* The units of a variant sold by the recorded orders.
RECURSIVE UnitsSold(_, _, _, _)
UnitsSold(orders, id, color, size) ==
  IF orders = <<>> THEN 0
  ELSE UnitsIn(Head(orders).items, id, color, size)
       + UnitsSold(Tail(orders), id, color, size)

\* C26: whatever two shoppers on two devices add and check out against the
\* same stock, no quantity of the products table is below 0.
C26_PersistedNeverNegative ==
  \A j \in 1 .. Len(dbProducts) : \A k \in 1 .. Len(dbProducts[j].stock) :
    dbProducts[j].stock[k].quantity >= 0

\* C26, oversell: both devices have an order recorded, and together the
\* orders sold three units of Renda Preto/P, of which the table had two; the
\* table holds 0 of it.
C26_Witness ==
  /\ \E a, b \in 1 .. Len(dbSales) : dbSales[a].run = 0 /\ dbSales[b].run # 0
  /\ UnitsSold(dbSales, 1, "Preto", "P") = 3
  /\ LoadedProducts[1].stock[1].quantity = 2
  /\ dbProducts[1].stock[1].quantity = 0
  /\ peer.pc = "done"
  /\ \A r \in 1 .. Len(runs) : runs[r].pc = "done"
====
